---- MODULE Spec2Model ----
(***************************************************************************)
(* State-machine model of cdvelop/crudp: the outbound broker (Enqueue,     *)
(* debounced flush timer, FlushNow, Clear) and the batch processor         *)
(* (ProcessBatch / processSinglePacket / CallHandler /                     *)
(* encodeResultToPacket).                                                  *)
(***************************************************************************)
EXTENDS Integers, Sequences, FiniteSets, TLC

(***************************************************************************)
(* Bounds of the model.                                                    *)
(***************************************************************************)
\* number of Enqueue calls in one run
MaxEnq == 3
\* last instant of the discrete clock
MaxTime == 4
\* number of FlushNow calls in one run
MaxFlushNow == 1
\* number of Clear calls in one run
MaxClear == 1
\* cfg.BatchWindow, in clock ticks
BatchWindow == 2

\* the (handlerID, action) pairs the broker's callers enqueue for
BrokerKeys == {<<0, "c">>, <<1, "c">>, <<0, "r">>}

(***************************************************************************)
(* Wire codec.  Bytes are a flat sequence of tokens; a BatchRequest is     *)
(* <<"BatchRequest", n, p1..., pn...>> and a packet is                     *)
(* <<Action, HandlerID, ReqID, len(Data), d1, ..., dk>>.                   *)
(***************************************************************************)
RECURSIVE EncodePackets(_)
EncodePackets(ps) ==
    IF ps = <<>> THEN <<>>
    ELSE LET p == Head(ps)
         IN  <<p.Action, p.HandlerID, p.ReqID, Len(p.Data)>> \o p.Data
                \o EncodePackets(Tail(ps))

EncodeBatchRequest(ps) == <<"BatchRequest", Len(ps)>> \o EncodePackets(ps)

\* codec.Encode of one Packet
EncodePacket(p) == EncodePackets(<<p>>)

\* parse n packets off the front of bs; err is the decode error's text
RECURSIVE DecodePackets(_, _)
DecodePackets(bs, n) ==
    IF n = 0
    THEN [err |-> IF bs = <<>> THEN "" ELSE "trailing data", packets |-> <<>>]
    ELSE IF Len(bs) < 4 \/ Len(bs) < 4 + bs[4]
    THEN [err |-> "unexpected end of input", packets |-> <<>>]
    ELSE LET k == bs[4]
             p == [Action |-> bs[1], HandlerID |-> bs[2], ReqID |-> bs[3],
                   Data |-> SubSeq(bs, 5, 4 + k)]
             rest == DecodePackets(SubSeq(bs, 5 + k, Len(bs)), n - 1)
         IN  [err |-> rest.err,
              packets |-> IF rest.err = "" THEN <<p>> \o rest.packets ELSE <<>>]

\* codec.Decode(bytes, &batchReq)
DecodeBatchRequest(bs) ==
    IF Len(bs) < 2 \/ bs[1] # "BatchRequest"
    THEN [err |-> "invalid character", packets |-> <<>>]
    ELSE DecodePackets(SubSeq(bs, 3, Len(bs)), bs[2])

\* DecodePacket: codec.Decode(data, &packet)
DecodePacket(bs) ==
    LET d == DecodePackets(bs, 1)
    IN  IF d.err # ""
        THEN [err |-> d.err,
              packet |-> [Action |-> "", HandlerID |-> 0, ReqID |-> "", Data |-> <<>>]]
        ELSE [err |-> "", packet |-> d.packets[1]]

(***************************************************************************)
(* HTTP method / CRUD action conversion.  An action is a byte.             *)
(***************************************************************************)
\* the byte of an action character
ByteOf(ch) ==
    CASE ch = "c" -> 99
      [] ch = "d" -> 100
      [] ch = "r" -> 114
      [] ch = "u" -> 117

\* a conversion that treats an unknown method as a read
MethodToActionDefaultsToRead(method) ==
    CASE method = "POST" -> ByteOf("c")
      [] method = "GET" -> ByteOf("r")
      [] method = "PUT" -> ByteOf("u")
      [] method = "DELETE" -> ByteOf("d")
      [] OTHER -> ByteOf("r")

\* MethodToAction
MethodToAction(method) ==
    CASE method = "POST" -> ByteOf("c")
      [] method = "GET" -> ByteOf("r")
      [] method = "PUT" -> ByteOf("u")
      [] method = "DELETE" -> ByteOf("d")
      [] OTHER -> 0

\* ActionToMethod
ActionToMethod(action) ==
    CASE action = ByteOf("c") -> "POST"
      [] action = ByteOf("r") -> "GET"
      [] action = ByteOf("u") -> "PUT"
      [] action = ByteOf("d") -> "DELETE"
      [] OTHER -> ""

(***************************************************************************)
(* Batch processor: codec for values and the response envelope.            *)
(***************************************************************************)
\* tinystring.Msg.Error and Msg.Success as message-type bytes
MsgError == 2
MsgSuccess == 4

\* number of packets in one BatchRequest
MaxPackets == 3

\* values handlers receive and return; a "chan" value has no encoding
User(name, id) == [kind |-> "User", Name |-> name, ID |-> id]
Unencodable == [kind |-> "chan", Name |-> "", ID |-> 0]

\* codec.Encode of a value
Encode(v) == [ok |-> v.kind # "chan", bytes |-> <<"json", v>>]

\* codec.Decode of an argument buffer
Decode(b) ==
    IF Len(b) = 2 /\ b[1] = "json"
    THEN [ok |-> TRUE, value |-> b[2]]
    ELSE [ok |-> FALSE, value |-> Unencodable]

\* bytes no decoder accepts
Garbage == <<"garbage">>

\* codec.Encode of a BatchResponse: each result is its packet followed by
\* MessageType and Message
RECURSIVE EncodeResults(_)
EncodeResults(rs) ==
    IF rs = <<>> THEN <<>>
    ELSE LET r == Head(rs)
         IN  <<r.Action, r.HandlerID, r.ReqID, Len(r.Data)>> \o r.Data
                \o <<r.MessageType, r.Message>> \o EncodeResults(Tail(rs))

EncodeBatchResponse(rs) == <<"BatchResponse", Len(rs)>> \o EncodeResults(rs)

RECURSIVE DecodeResults(_, _)
DecodeResults(bs, n) ==
    IF n = 0 THEN [ok |-> bs = <<>>, results |-> <<>>]
    ELSE IF Len(bs) < 6 THEN [ok |-> FALSE, results |-> <<>>]
    ELSE IF Len(bs) < 6 + bs[4] THEN [ok |-> FALSE, results |-> <<>>]
    ELSE LET k == bs[4]
             r == [Action |-> bs[1], HandlerID |-> bs[2], ReqID |-> bs[3],
                   Data |-> SubSeq(bs, 5, 4 + k),
                   MessageType |-> bs[5 + k], Message |-> bs[6 + k]]
             rest == DecodeResults(SubSeq(bs, 7 + k, Len(bs)), n - 1)
         IN  [ok |-> rest.ok, results |-> <<r>> \o rest.results]

DecodeBatchResponse(bs) ==
    IF Len(bs) < 2 \/ bs[1] # "BatchResponse"
    THEN [ok |-> FALSE, results |-> <<>>]
    ELSE DecodeResults(SubSeq(bs, 3, Len(bs)), bs[2])

(***************************************************************************)
(* Handlers given to RegisterHandler.  A handler is described by its type  *)
(* name, its optional HandlerName(), whether it implements Validator, and  *)
(* what each CRUD method it implements returns ("none": not implemented).  *)
(***************************************************************************)
\* crudp_shared_test.go User: Create and Read return one Response per argument
UserHandler ==
    [typeName |-> <<"U", "s", "e", "r">>, named |-> FALSE, explicit |-> "",
     validator |-> FALSE, isNil |-> FALSE,
     c |-> "created", r |-> "found", u |-> "none", d |-> "none"]

\* ValidatedHandler: Validate rejects an empty argument list
ValidatedHandler ==
    [typeName |-> <<"V", "a", "l", "i", "d", "a", "t", "e", "d", "H", "a", "n", "d", "l", "e", "r">>,
     named |-> FALSE, explicit |-> "",
     validator |-> TRUE, isNil |-> FALSE,
     c |-> "single", r |-> "none", u |-> "none", d |-> "none"]

\* packet_shared_test.go sseHandler: Create returns a Response for two channels
SseHandler ==
    [typeName |-> <<"s", "s", "e", "H", "a", "n", "d", "l", "e", "r">>,
     named |-> FALSE, explicit |-> "",
     validator |-> FALSE, isNil |-> FALSE,
     c |-> "sse", r |-> "none", u |-> "none", d |-> "none"]

\* a handler whose methods return nil, a failing Response sequence, a value
\* the codec cannot encode, and a failing Response
FaultyHandler ==
    [typeName |-> <<"F", "a", "u", "l", "t", "y">>, named |-> TRUE, explicit |-> "my_custom_name",
     validator |-> FALSE, isNil |-> FALSE,
     c |-> "nil", r |-> "manyErr", u |-> "directBad", d |-> "singleErr"]

\* a handler whose Create returns three Responses, two of them with targets,
\* and whose Read returns three Responses the second of which has a payload
\* the codec cannot encode
MultiHandler ==
    [typeName |-> <<"m", "u", "l", "t", "i", "H", "a", "n", "d", "l", "e", "r">>,
     named |-> FALSE, explicit |-> "",
     validator |-> FALSE, isNil |-> FALSE,
     c |-> "manyOk", r |-> "manyBad", u |-> "none", d |-> "none"]

\* a nil handler argument
NilHandler ==
    [typeName |-> <<>>, named |-> FALSE, explicit |-> "",
     validator |-> FALSE, isNil |-> TRUE,
     c |-> "none", r |-> "none", u |-> "none", d |-> "none"]

AllHandlers == <<UserHandler, ValidatedHandler, SseHandler, FaultyHandler, MultiHandler>>

\* the handler lists RegisterHandler is called with before a batch
HandlerLists == {<<UserHandler>>, AllHandlers}

\* the handler lists RegisterHandler is called with, nil handlers included
RegisterInputs ==
    HandlerLists \cup
    {<<>>,
     <<FaultyHandler, UserHandler, ValidatedHandler>>,
     <<NilHandler>>,
     <<UserHandler, NilHandler, ValidatedHandler>>,
     <<ValidatedHandler, FaultyHandler, NilHandler, NilHandler>>}

Lower(ch) ==
    CASE ch = "U" -> "u" [] ch = "V" -> "v" [] ch = "H" -> "h" [] ch = "F" -> "f"
      [] OTHER -> ch
IsUpper(ch) == ch \in {"U", "V", "H", "F"}

\* tinystring SnakeLow: lower case, "_" before an upper-case letter that
\* follows a lower-case one
RECURSIVE SnakeLow(_, _)
SnakeLow(cs, prevLower) ==
    IF cs = <<>> THEN ""
    ELSE LET ch == Head(cs)
         IN  (IF IsUpper(ch) /\ prevLower THEN "_" ELSE "") \o Lower(ch)
                \o SnakeLow(Tail(cs), ~IsUpper(ch))

\* getHandlerName: HandlerName() if implemented, else the snake-case type name
getHandlerName(h) == IF h.named THEN h.explicit ELSE SnakeLow(h.typeName, FALSE)

\* the zero actionHandler make() fills cp.handlers with
ZeroSlot ==
    [name |-> "", index |-> 0, handler |-> NilHandler,
     Create |-> "none", Read |-> "none", Update |-> "none", Delete |-> "none"]

\* position of the first nil handler of the input, 0 if there is none
FirstNil(hs) ==
    IF \E i \in 1 .. Len(hs) : hs[i].isNil
    THEN CHOOSE i \in 1 .. Len(hs) :
            hs[i].isNil /\ \A j \in 1 .. i - 1 : ~hs[j].isNil
    ELSE 0

\* a nil check that looks at the last handler only
RegisterErrLastOnly(hs) ==
    IF Len(hs) > 0 /\ hs[Len(hs)].isNil
    THEN "handler " \o ToString(Len(hs) - 1) \o " is nil"
    ELSE ""

\* the error RegisterHandler returns: it stops at the first nil handler
RegisterErr(hs) ==
    IF FirstNil(hs) = 0 THEN "" ELSE "handler " \o ToString(FirstNil(hs) - 1) \o " is nil"

\* the conversion uint8(i) of an int loop index
Uint8(i) == i % 256

\* the assignment cp.handlers[index] = slot
SetSlot(table, index, slot) ==
    SubSeq(table, 1, index) \o <<slot>> \o SubSeq(table, index + 2, Len(table))

\* bind(index, handler): the methods the handler implements are stored in
\* the slot at index; the others are left as they are
bind(table, index, h) ==
    SetSlot(table, index,
        [table[index + 1] EXCEPT !.Create = IF h.c # "none" THEN h.c ELSE @,
                                 !.Read = IF h.r # "none" THEN h.r ELSE @,
                                 !.Update = IF h.u # "none" THEN h.u ELSE @,
                                 !.Delete = IF h.d # "none" THEN h.d ELSE @])

\* one iteration of the loop of RegisterHandler, at int position i:
\* cp.handlers[i] = actionHandler{name, uint8(i), h}, then bind(uint8(i), h)
RegisterStep(table, hs, i) ==
    bind(SetSlot(table, i,
            [ZeroSlot EXCEPT !.name = getHandlerName(hs[i + 1]),
                             !.index = Uint8(i),
                             !.handler = hs[i + 1]]),
         Uint8(i), hs[i + 1])

\* the iterations at positions lo .. hi-1 in increasing order, the range
\* being split in two halves that run one after the other; no iteration
\* changes the length make() gave the table
RECURSIVE RegisterLoop(_, _, _, _)
RegisterLoop(table, hs, lo, hi) ==
    IF lo >= hi THEN table
    ELSE IF hi = lo + 1 THEN RegisterStep(table, hs, lo)
    ELSE LET mid == (lo + hi) \div 2
             left == RegisterLoop(table, hs, lo, mid)
         IN  IF Len(left) # Len(table) THEN left
             ELSE RegisterLoop(left, hs, mid, hi)

\* a registration that names every handler by its type, HandlerName() ignored
RegisterTableTypeNames(hs) ==
    [i \in 1 .. Len(hs) |->
        IF FirstNil(hs) = 0 \/ i < FirstNil(hs)
        THEN [name |-> SnakeLow(hs[i].typeName, FALSE), index |-> i - 1, handler |-> hs[i],
              Create |-> hs[i].c, Read |-> hs[i].r, Update |-> hs[i].u, Delete |-> hs[i].d]
        ELSE ZeroSlot]

\* a registration that keeps only the slots before the first nil handler
RegisterTableTruncated(hs) ==
    LET n == IF FirstNil(hs) = 0 THEN Len(hs) ELSE FirstNil(hs) - 1
    IN  RegisterLoop([i \in 1 .. n |-> ZeroSlot], hs, 0, n)

\* cp.handlers after RegisterHandler: make() of a zero slot per input, then
\* the loop, which returns at the first nil handler
RegisterTable(hs) ==
    RegisterLoop([i \in 1 .. Len(hs) |-> ZeroSlot], hs, 0,
                 IF FirstNil(hs) = 0 THEN Len(hs) ELSE FirstNil(hs) - 1)

\* GetHandlerName: the slot's name, "" for an id outside the table
GetHandlerName(table, handlerID) ==
    IF handlerID >= Len(table) THEN "" ELSE table[handlerID + 1].name

\* what a bound CRUD method returns for its arguments
Resp(data, broadcast, err) == [data |-> data, broadcast |-> broadcast, err |-> err]
Invoke(m, data) ==
    CASE m = "created" ->
            [kind |-> "responses",
             items |-> [j \in 1 .. Len(data) |-> Resp(User(data[j].Name, 123), <<>>, "")]]
      [] m = "found" ->
            [kind |-> "responses",
             items |-> [j \in 1 .. Len(data) |->
                          Resp(User("Found " \o data[j].Name, data[j].ID), <<>>, "")]]
      [] m = "single" ->
            [kind |-> "response", items |-> <<Resp(User("validated_created", 0), <<>>, "")>>]
      [] m = "sse" ->
            [kind |-> "response",
             items |-> <<Resp(User("broadcast", 0), <<"channel1", "channel2">>, "")>>]
      [] m = "nil" -> [kind |-> "nil", items |-> <<>>]
      [] m = "manyOk" ->
            [kind |-> "responses",
             items |-> <<Resp(User("first", 1), <<"u1", "u2">>, ""),
                         Resp(User("second", 2), <<>>, ""),
                         Resp(User("third", 3), <<"u3">>, "")>>]
      [] m = "manyBad" ->
            [kind |-> "responses",
             items |-> <<Resp(User("first", 1), <<"u1">>, ""),
                         Resp(Unencodable, <<"u2">>, ""),
                         Resp(User("third", 3), <<"u3">>, "")>>]
      [] m = "manyErr" ->
            [kind |-> "responses",
             items |-> <<Resp(User("first", 1), <<"u1">>, ""),
                         Resp(User("second", 2), <<"u2">>, "response failed"),
                         Resp(User("third", 3), <<"u3">>, "")>>]
      [] m = "directBad" -> [kind |-> "value", items |-> <<Resp(Unencodable, <<>>, "")>>]
      [] m = "singleErr" ->
            [kind |-> "response", items |-> <<Resp(User("x", 0), <<"u1">>, "response failed")>>]
      [] OTHER -> [kind |-> "value", items |-> <<Resp(User("direct", 0), <<>>, "")>>]

(***************************************************************************)
(* Dispatcher and result encoding.                                         *)
(***************************************************************************)
NoHandlerErr(h) == "no handler found for id: " \o ToString(h)

\* the fields of a registered handler object before any call
OriginalHandler == [kind |-> "User", Name |-> "OriginalHandler", ID |-> 999]

\* what a decoded argument denotes when the handler method reads it: the
\* value of its own new instance, or the handler object's current fields
Deref(arg, instance) == IF arg.ref = "new" THEN arg.value ELSE instance

\* a typed decode that uses the handler object itself as the target of every
\* buffer and hands out pointers to it
decodeItemsIntoHandler(instance, data) ==
    IF \E j \in 1 .. Len(data) : ~Decode(data[j]).ok
    THEN [err |-> "decode error", args |-> <<>>, instance |-> instance]
    ELSE [err |-> "",
          args |-> [j \in 1 .. Len(data) |-> [ref |-> "handler", value |-> Decode(data[j]).value]],
          instance |-> IF Len(data) = 0 THEN instance ELSE Decode(data[Len(data)]).value]

\* the loop of decodeWithKnownType: for every buffer a new instance of the
\* handler's type is created and decoded into; the handler object is only
\* asked for its type
decodeItems(instance, data) ==
    IF \E j \in 1 .. Len(data) : ~Decode(data[j]).ok
    THEN [err |-> "decode error", args |-> <<>>, instance |-> instance]
    ELSE [err |-> "",
          args |-> [j \in 1 .. Len(data) |-> [ref |-> "new", value |-> Decode(data[j]).value]],
          instance |-> instance]

\* decodeWithKnownType: typed decode of every argument buffer of the packet
decodeWithKnownType(table, p) ==
    IF p.HandlerID >= Len(table)
    THEN [err |-> NoHandlerErr(p.HandlerID), data |-> <<>>]
    ELSE LET r == decodeItems(OriginalHandler, p.Data)
         IN  IF r.err # ""
             THEN [err |-> r.err, data |-> <<>>]
             ELSE [err |-> "",
                   data |-> [j \in 1 .. Len(p.Data) |-> Deref(r.args[j], r.instance)]]

\* a switch whose default case dispatches to Create
BoundMethodDefaultsToCreate(handler, action) ==
    CASE action = "c" -> handler.Create
      [] action = "r" -> handler.Read
      [] action = "u" -> handler.Update
      [] action = "d" -> handler.Delete
      [] OTHER -> handler.Create

\* the method of a handler slot bound for an action byte
BoundMethod(handler, action) ==
    CASE action = "c" -> handler.Create
      [] action = "r" -> handler.Read
      [] action = "u" -> handler.Update
      [] action = "d" -> handler.Delete
      [] OTHER -> "none"

\* CallHandler without the check of ctx.Done()
CallHandlerIgnoresContext(table, ctx, h, action, data) ==
    IF h >= Len(table)
    THEN [result |-> Invoke("nil", <<>>), err |-> NoHandlerErr(h), calls |-> <<>>]
    ELSE LET handler == table[h + 1]
             validated == IF handler.handler.validator
                          THEN <<[op |-> "Validate", h |-> h, action |-> action]>>
                          ELSE <<>>
             verr == IF handler.handler.validator /\ Len(data) = 0
                     THEN "no data provided" ELSE ""
             m == BoundMethod(handler, action)
         IN  IF verr # ""
             THEN [result |-> Invoke("nil", <<>>), err |-> verr, calls |-> validated]
             ELSE IF m # "none"
             THEN [result |-> Invoke(m, data), err |-> "",
                   calls |-> Append(validated, [op |-> "Method", h |-> h, action |-> action])]
             ELSE [result |-> Invoke("nil", <<>>),
                   err |-> "action '" \o action \o "' not implemented for handler: "
                               \o handler.name,
                   calls |-> validated]

\* CallHandler that runs Validate only after the method has been dispatched
CallHandlerValidatesLate(table, ctx, h, action, data) ==
    IF h >= Len(table)
    THEN [result |-> Invoke("nil", <<>>), err |-> NoHandlerErr(h), calls |-> <<>>]
    ELSE LET handler == table[h + 1]
             validated == IF handler.handler.validator
                          THEN <<[op |-> "Validate", h |-> h, action |-> action]>>
                          ELSE <<>>
             verr == IF handler.handler.validator /\ Len(data) = 0
                     THEN "no data provided" ELSE ""
             m == BoundMethod(handler, action)
             invoked == <<[op |-> "Method", h |-> h, action |-> action]>>
         IN  IF ctx
             THEN [result |-> Invoke("nil", <<>>), err |-> "context canceled",
                   calls |-> <<>>]
             ELSE IF m = "none"
             THEN [result |-> Invoke("nil", <<>>),
                   err |-> "action '" \o action \o "' not implemented for handler: "
                               \o handler.name,
                   calls |-> <<>>]
             ELSE IF verr # ""
             THEN [result |-> Invoke("nil", <<>>), err |-> verr,
                   calls |-> invoked \o validated]
             ELSE [result |-> Invoke(m, data), err |-> "", calls |-> invoked \o validated]

\* CallHandler that checks the context before it runs Validate
CallHandlerChecksContextFirst(table, ctx, h, action, data) ==
    IF h >= Len(table)
    THEN [result |-> Invoke("nil", <<>>), err |-> NoHandlerErr(h), calls |-> <<>>]
    ELSE LET handler == table[h + 1]
             validated == IF handler.handler.validator
                          THEN <<[op |-> "Validate", h |-> h, action |-> action]>>
                          ELSE <<>>
             verr == IF handler.handler.validator /\ Len(data) = 0
                     THEN "no data provided" ELSE ""
             m == BoundMethod(handler, action)
         IN  IF ctx
             THEN [result |-> Invoke("nil", <<>>), err |-> "context canceled",
                   calls |-> <<>>]
             ELSE IF verr # ""
             THEN [result |-> Invoke("nil", <<>>), err |-> verr, calls |-> validated]
             ELSE IF m # "none"
             THEN [result |-> Invoke(m, data), err |-> "",
                   calls |-> Append(validated, [op |-> "Method", h |-> h, action |-> action])]
             ELSE [result |-> Invoke("nil", <<>>),
                   err |-> "action '" \o action \o "' not implemented for handler: "
                               \o handler.name,
                   calls |-> validated]

\* CallHandler: lookup, optional Validate, context check, dispatch
CallHandler(table, ctx, h, action, data) ==
    IF h >= Len(table)
    THEN [result |-> Invoke("nil", <<>>), err |-> NoHandlerErr(h), calls |-> <<>>]
    ELSE LET handler == table[h + 1]
             validated == IF handler.handler.validator
                          THEN <<[op |-> "Validate", h |-> h, action |-> action]>>
                          ELSE <<>>
             verr == IF handler.handler.validator /\ Len(data) = 0
                     THEN "no data provided" ELSE ""
             m == BoundMethod(handler, action)
         IN  IF verr # ""
             THEN [result |-> Invoke("nil", <<>>), err |-> verr, calls |-> validated]
             ELSE IF ctx
             THEN [result |-> Invoke("nil", <<>>), err |-> "context canceled",
                   calls |-> validated]
             ELSE IF m # "none"
             THEN [result |-> Invoke(m, data), err |-> "",
                   calls |-> Append(validated, [op |-> "Method", h |-> h, action |-> action])]
             ELSE [result |-> Invoke("nil", <<>>),
                   err |-> "action '" \o action \o "' not implemented for handler: "
                               \o handler.name,
                   calls |-> validated]

\* routeToSSE: encode once, one delivery per target channel; nothing on failure
routeToSSE(data, broadcast, handlerID) ==
    IF ~Encode(data).ok THEN <<>>
    ELSE [i \in 1 .. Len(broadcast) |->
            [channel |-> broadcast[i], bytes |-> Encode(data).bytes, handlerID |-> handlerID]]

\* a loop that skips a Response whose Response() reports an error
RECURSIVE EncodeResponsesSkipsFailed(_, _, _, _)
EncodeResponsesSkipsFailed(items, handlerID, out, routed) ==
    IF items = <<>> THEN [err |-> "", data |-> out, routed |-> routed]
    ELSE LET resp == Head(items)
             routed2 == IF Len(resp.broadcast) > 0
                        THEN routed \o routeToSSE(resp.data, resp.broadcast, handlerID)
                        ELSE routed
         IN  IF resp.err # ""
             THEN EncodeResponsesSkipsFailed(Tail(items), handlerID, out, routed)
             ELSE IF ~Encode(resp.data).ok
             THEN [err |-> "encode error", data |-> out, routed |-> routed2]
             ELSE EncodeResponsesSkipsFailed(Tail(items), handlerID,
                                             Append(out, Encode(resp.data).bytes), routed2)

\* a loop that puts each encoded buffer in front of the earlier ones
RECURSIVE EncodeResponsesPrepends(_, _, _, _)
EncodeResponsesPrepends(items, handlerID, out, routed) ==
    IF items = <<>> THEN [err |-> "", data |-> out, routed |-> routed]
    ELSE LET resp == Head(items)
             routed2 == IF Len(resp.broadcast) > 0
                        THEN routed \o routeToSSE(resp.data, resp.broadcast, handlerID)
                        ELSE routed
         IN  IF resp.err # "" THEN [err |-> resp.err, data |-> out, routed |-> routed]
             ELSE IF ~Encode(resp.data).ok
             THEN [err |-> "encode error", data |-> out, routed |-> routed2]
             ELSE EncodeResponsesPrepends(Tail(items), handlerID,
                                          <<Encode(resp.data).bytes>> \o out, routed2)

\* a loop that gives up with the router's error, and without data, when the
\* router cannot encode a payload
RECURSIVE EncodeResponsesRouteErrorAborts(_, _, _, _)
EncodeResponsesRouteErrorAborts(items, handlerID, out, routed) ==
    IF items = <<>> THEN [err |-> "", data |-> out, routed |-> routed]
    ELSE LET resp == Head(items)
             routed2 == IF Len(resp.broadcast) > 0
                        THEN routed \o routeToSSE(resp.data, resp.broadcast, handlerID)
                        ELSE routed
         IN  IF resp.err # "" THEN [err |-> resp.err, data |-> out, routed |-> routed]
             ELSE IF Len(resp.broadcast) > 0 /\ ~Encode(resp.data).ok
             THEN [err |-> "routeToSSE encoding error", data |-> <<>>, routed |-> routed2]
             ELSE IF ~Encode(resp.data).ok
             THEN [err |-> "encode error", data |-> out, routed |-> routed2]
             ELSE EncodeResponsesRouteErrorAborts(Tail(items), handlerID,
                                                  Append(out, Encode(resp.data).bytes), routed2)

\* a loop that returns no buffers at all when an element fails
RECURSIVE EncodeResponsesDropsOnError(_, _, _, _)
EncodeResponsesDropsOnError(items, handlerID, out, routed) ==
    IF items = <<>> THEN [err |-> "", data |-> out, routed |-> routed]
    ELSE LET resp == Head(items)
             routed2 == IF Len(resp.broadcast) > 0
                        THEN routed \o routeToSSE(resp.data, resp.broadcast, handlerID)
                        ELSE routed
         IN  IF resp.err # "" THEN [err |-> resp.err, data |-> <<>>, routed |-> routed]
             ELSE IF ~Encode(resp.data).ok
             THEN [err |-> "encode error", data |-> <<>>, routed |-> routed2]
             ELSE EncodeResponsesDropsOnError(Tail(items), handlerID,
                                  Append(out, Encode(resp.data).bytes), routed2)

\* the loop of encodeResultToPacket over a []Response
RECURSIVE EncodeResponses(_, _, _, _)
EncodeResponses(items, handlerID, out, routed) ==
    IF items = <<>> THEN [err |-> "", data |-> out, routed |-> routed]
    ELSE LET resp == Head(items)
             routed2 == IF Len(resp.broadcast) > 0
                        THEN routed \o routeToSSE(resp.data, resp.broadcast, handlerID)
                        ELSE routed
         IN  IF resp.err # "" THEN [err |-> resp.err, data |-> out, routed |-> routed]
             ELSE IF ~Encode(resp.data).ok
             THEN [err |-> "encode error", data |-> out, routed |-> routed2]
             ELSE EncodeResponses(Tail(items), handlerID,
                                  Append(out, Encode(resp.data).bytes), routed2)

\* encodeResultToPacket: nil, []Response, Response, direct value
encodeResultToPacket(pr, result) ==
    CASE result.kind = "nil" -> [pr |-> pr, err |-> "", routed |-> <<>>]
      [] result.kind = "responses" ->
            LET e == EncodeResponses(result.items, pr.HandlerID, <<>>, <<>>)
            IN  [pr |-> [pr EXCEPT !.Data = e.data], err |-> e.err, routed |-> e.routed]
      [] result.kind = "response" ->
            LET e == EncodeResponses(result.items, pr.HandlerID, <<>>, <<>>)
            IN  [pr |-> IF e.err = "" THEN [pr EXCEPT !.Data = e.data] ELSE pr,
                 err |-> e.err, routed |-> e.routed]
      [] OTHER ->
            LET enc == Encode(result.items[1].data)
            IN  [pr |-> IF enc.ok THEN [pr EXCEPT !.Data = <<enc.bytes>>] ELSE pr,
                 err |-> IF enc.ok THEN "" ELSE "encode error", routed |-> <<>>]

\* a PacketResult: the packet plus MessageType and Message
PacketResult(p, mt, msg) ==
    [Action |-> p.Action, HandlerID |-> p.HandlerID, ReqID |-> p.ReqID,
     Data |-> p.Data, MessageType |-> mt, Message |-> msg]

\* processSinglePacket that reports a failed handler call as Success "OK"
processSinglePacketSuccessOnError(table, ctx, p) ==
    LET pr == PacketResult(p, 0, "")
        d == decodeWithKnownType(table, p)
        c == CallHandler(table, ctx, p.HandlerID, p.Action, d.data)
        e == encodeResultToPacket(pr, c.result)
    IN  IF d.err # ""
        THEN [pr |-> PacketResult(p, MsgError, d.err), err |-> d.err,
              calls |-> <<>>, routed |-> <<>>]
        ELSE IF c.err # ""
        THEN [pr |-> PacketResult(p, MsgSuccess, "OK"), err |-> c.err,
              calls |-> c.calls, routed |-> <<>>]
        ELSE IF e.err # ""
        THEN [pr |-> PacketResult(e.pr, MsgError, e.err), err |-> e.err,
              calls |-> c.calls, routed |-> e.routed]
        ELSE [pr |-> PacketResult(e.pr, MsgSuccess, "OK"), err |-> "",
              calls |-> c.calls, routed |-> e.routed]

\* processSinglePacket that returns the result of a failed typed decode
\* without marking it as an Error
processSinglePacketUnmarkedDecodeError(table, ctx, p) ==
    LET pr == PacketResult(p, 0, "")
        d == decodeWithKnownType(table, p)
        c == CallHandler(table, ctx, p.HandlerID, p.Action, d.data)
        e == encodeResultToPacket(pr, c.result)
    IN  IF d.err # ""
        THEN [pr |-> pr, err |-> d.err, calls |-> <<>>, routed |-> <<>>]
        ELSE IF c.err # ""
        THEN [pr |-> PacketResult(p, MsgError, c.err), err |-> c.err,
              calls |-> c.calls, routed |-> <<>>]
        ELSE IF e.err # ""
        THEN [pr |-> PacketResult(e.pr, MsgError, e.err), err |-> e.err,
              calls |-> c.calls, routed |-> e.routed]
        ELSE [pr |-> PacketResult(e.pr, MsgSuccess, "OK"), err |-> "",
              calls |-> c.calls, routed |-> e.routed]

\* processSinglePacket: decode, call, encode the result
processSinglePacket(table, ctx, p) ==
    LET pr == PacketResult(p, 0, "")
        d == decodeWithKnownType(table, p)
        c == CallHandler(table, ctx, p.HandlerID, p.Action, d.data)
        e == encodeResultToPacket(pr, c.result)
    IN  IF d.err # ""
        THEN [pr |-> PacketResult(p, MsgError, d.err), err |-> d.err,
              calls |-> <<>>, routed |-> <<>>]
        ELSE IF c.err # ""
        THEN [pr |-> PacketResult(p, MsgError, c.err), err |-> c.err,
              calls |-> c.calls, routed |-> <<>>]
        ELSE IF e.err # ""
        THEN [pr |-> PacketResult(e.pr, MsgError, e.err), err |-> e.err,
              calls |-> c.calls, routed |-> e.routed]
        ELSE [pr |-> PacketResult(e.pr, MsgSuccess, "OK"), err |-> "",
              calls |-> c.calls, routed |-> e.routed]

\* createErrorBatchResponse: one Error result carrying reqID and the error text
createErrorBatchResponse(reqID, err) ==
    <<[Action |-> "", HandlerID |-> 0, ReqID |-> reqID, Data |-> <<>>,
       MessageType |-> MsgError, Message |-> err]>>

(***************************************************************************)
(* Broker state.                                                           *)
(***************************************************************************)
VARIABLES
    queue,          \* b.queue: sequence of Packet
    timer,          \* b.timer: 0 is nil, otherwise an index into timers
    timers,         \* every timer AfterFunc has created: state and deadline
    now,            \* the clock of the time provider
    inCallback,     \* b.mu is held by a flush that is inside b.onFlush
    onFlush,        \* b.onFlush is non-nil
    codecOK,        \* b.codec.Encode succeeds
    flushNowPending,\* a FlushNow call is between its Stop and its flush
    delivered,      \* calls of b.onFlush: bytes, caller, time since last Enqueue
    enqLog,         \* arguments of the Enqueue calls, in call order
    lastEnq,        \* time of the last Enqueue call
    mark,           \* number of Enqueue calls before the queue was last emptied
    discarded,      \* arguments a Clear removed from the queue
    nFlushNow,      \* FlushNow calls so far
    nClear          \* Clear calls so far

brokerVars == <<queue, timer, timers, now, inCallback, onFlush, codecOK,
                flushNowPending, delivered, enqLog, lastEnq, mark, discarded,
                nFlushNow, nClear>>



(***************************************************************************)
(* Batch processor state.                                                  *)
(***************************************************************************)
VARIABLES
    handlers,       \* cp.handlers: the registered handler table
    pc,             \* where the ProcessBatch call is: "idle", "loop", "done"
    ctxDone,        \* the context passed to ProcessBatch is cancelled
    requestBytes,   \* the requestBytes argument
    batchReq,       \* batchReq.Packets after a successful decode
    results,        \* the results slice built by the loop
    errs,           \* for each processed packet, the error processSinglePacket returned
    ctxSeen,        \* for each processed packet, ctxDone when it was processed
    calls,          \* Validate and CRUD method invocations, in order
    routed,         \* deliveries routeToSSE made to channels, in order
    ret,            \* what ProcessBatch returned: bytes and error text
    regd,           \* the last RegisterHandler call: its handlers and its error
    lastCall        \* the last direct CallHandler call: cp.handlers, arguments, outcome

batchVars == <<handlers, pc, ctxDone, requestBytes, batchReq, results, errs, ctxSeen,
               calls, routed, ret, regd, lastCall>>

(***************************************************************************)
(* Concurrent callers of one handler slot.                                 *)
(***************************************************************************)
VARIABLES
    instance,       \* the fields of the handler object registered at slot 0
    conc,           \* per caller: position, action, buffers, decoded arguments, output
    steps           \* the order in which the callers' steps ran

isoVars == <<instance, conc, steps>>

(***************************************************************************)
(* A call of ProcessPacket.                                                *)
(***************************************************************************)
VARIABLES
    packetCall      \* position, request, decoded packet and return values of the call

packetVars == <<packetCall>>

(***************************************************************************)
(* Calls of the method/action conversions.                                 *)
(***************************************************************************)
VARIABLES
    conv            \* arguments and return values of the last conversions

convVars == <<conv>>

\* the broker call the running callback has made and that waits for b.mu
\* ("none" while it has made none), and the values QueueLength has returned
VARIABLES waiting, qlen
lockVars == <<waiting, qlen>>

\* a CrudP instance with its own codec and the codec of its broker
VARIABLES
    cp,             \* built, codec, and broker: codec, queue, timer armed
    envelopes,      \* the bytes the flush callback of cp.broker was called with
    codecLog,       \* the arguments of the SetCodec calls, in call order
    probe           \* the last EncodePacket or ProcessBatch call and what it gave
codecVars == <<cp, envelopes, codecLog, probe>>

vars == <<brokerVars, batchVars, isoVars, packetVars, convVars, lockVars, codecVars>>

\* the packets batches are built from
Arg(name) == Encode(User(name, 0)).bytes
PacketMenu ==
    {[Action |-> "c", HandlerID |-> 0, ReqID |-> "r1", Data |-> <<Arg("Alice")>>],
     [Action |-> "r", HandlerID |-> 0, ReqID |-> "r2", Data |-> <<Arg("Alice"), Arg("Bob")>>],
     [Action |-> "c", HandlerID |-> 9, ReqID |-> "r3", Data |-> <<Arg("Alice")>>],
     [Action |-> "d", HandlerID |-> 0, ReqID |-> "r4", Data |-> <<Arg("Alice")>>],
     [Action |-> "c", HandlerID |-> 1, ReqID |-> "r5", Data |-> <<>>],
     [Action |-> "c", HandlerID |-> 1, ReqID |-> "r6", Data |-> <<Garbage>>],
     [Action |-> "c", HandlerID |-> 2, ReqID |-> "r7", Data |-> <<>>],
     [Action |-> "r", HandlerID |-> 3, ReqID |-> "", Data |-> <<>>],
     [Action |-> "c", HandlerID |-> 3, ReqID |-> "r9", Data |-> <<Arg("Bob")>>],
     [Action |-> "u", HandlerID |-> 3, ReqID |-> "r10", Data |-> <<>>],
     [Action |-> "d", HandlerID |-> 3, ReqID |-> "r11", Data |-> <<Arg("Bob")>>],
     [Action |-> "c", HandlerID |-> 4, ReqID |-> "r12", Data |-> <<>>],
     [Action |-> "r", HandlerID |-> 4, ReqID |-> "r13", Data |-> <<Arg("Alice")>>]}

Batches == UNION {[1 .. n -> PacketMenu] : n \in 0 .. MaxPackets}

\* request bytes: encoded batches, and bytes that do not decode
Truncate(bs) == SubSeq(bs, 1, Len(bs) - 1)
Undecodable == {Garbage} \cup {Truncate(EncodeBatchRequest(<<p>>)) : p \in PacketMenu}
Requests == {EncodeBatchRequest(b) : b \in Batches} \cup Undecodable

NoReturn == [returned |-> FALSE, bytes |-> <<>>, err |-> "", encoded |-> TRUE]

\* arguments direct CallHandler calls are made with
HandlerIDs == 0 .. 5 \cup {99, 255}
Actions == {"c", "r", "u", "d", "x"}
ArgLists == {<<>>, <<User("Alice", 0)>>, <<User("Alice", 0), User("Bob", 7)>>}

NoCall ==
    [made |-> FALSE, table |-> <<>>, handlerID |-> 0, action |-> "", data |-> <<>>,
     ctx |-> FALSE,
     out |-> [result |-> [kind |-> "nil", items |-> <<>>], err |-> "", calls |-> <<>>]]

\* New: no handlers registered, no call in progress
InitBatch ==
    /\ handlers = <<>>
    /\ pc = "idle"
    /\ ctxDone = FALSE
    /\ requestBytes = <<>>
    /\ batchReq = <<>>
    /\ results = <<>>
    /\ errs = <<>>
    /\ ctxSeen = <<>>
    /\ calls = <<>>
    /\ routed = <<>>
    /\ ret = NoReturn
    /\ regd = [input |-> <<>>, err |-> ""]
    /\ lastCall = NoCall

\* RegisterHandler(hs...), before any dispatch; its error is kept in regd
RegisterHandler(hs) ==
    /\ pc = "idle"
    /\ handlers' = RegisterTable(hs)
    /\ regd' = [input |-> hs, err |-> RegisterErr(hs)]
    /\ UNCHANGED <<pc, ctxDone, requestBytes, batchReq, results, errs, ctxSeen,
                   calls, routed, ret, lastCall>>
    /\ UNCHANGED <<brokerVars, isoVars, packetVars, convVars, lockVars, codecVars>>

\* a caller invokes CallHandler(ctx, handlerID, action, data...) directly
CallHandlerCall(h, action, data, ctx) ==
    /\ pc = "idle"
    /\ lastCall' = [made |-> TRUE, table |-> handlers, handlerID |-> h, action |-> action,
                    data |-> data, ctx |-> ctx,
                    out |-> CallHandler(handlers, ctx, h, action, data)]
    /\ UNCHANGED <<handlers, pc, ctxDone, requestBytes, batchReq, results, errs, ctxSeen,
                   calls, routed, ret, regd>>
    /\ UNCHANGED <<brokerVars, isoVars, packetVars, convVars, lockVars, codecVars>>

\* the caller's context is cancelled
CancelContext ==
    /\ pc \in {"idle", "loop"}
    /\ ~ctxDone
    /\ ctxDone' = TRUE
    /\ UNCHANGED <<handlers, pc, requestBytes, batchReq, results, errs, ctxSeen,
                   calls, routed, ret>>
    /\ UNCHANGED <<regd, lastCall>>
    /\ UNCHANGED <<brokerVars, isoVars, packetVars, convVars, lockVars, codecVars>>

\* return cp.codec.Encode(BatchResponse{Results: rs})
ReturnEncoded(rs, encodes) ==
    IF encodes
    THEN [returned |-> TRUE, bytes |-> EncodeBatchResponse(rs), err |-> "", encoded |-> TRUE]
    ELSE [returned |-> TRUE, bytes |-> <<>>, err |-> "encode error", encoded |-> FALSE]

\* ProcessBatch that returns the decode error as a function-level error
ProcessBatchDecodeFails(bytes, encodes) ==
    /\ pc = "idle"
    /\ requestBytes' = bytes
    /\ IF DecodeBatchRequest(bytes).err = ""
       THEN /\ batchReq' = DecodeBatchRequest(bytes).packets
            /\ pc' = "loop"
            /\ ret' = ret
       ELSE /\ batchReq' = batchReq
            /\ pc' = "done"
            /\ ret' = [returned |-> TRUE, bytes |-> <<>>,
                       err |-> DecodeBatchRequest(bytes).err, encoded |-> encodes]
    /\ UNCHANGED <<handlers, ctxDone, results, errs, ctxSeen, calls, routed>>
    /\ UNCHANGED <<regd, lastCall>>
    /\ UNCHANGED <<brokerVars, isoVars, packetVars, convVars, lockVars, codecVars>>

\* ProcessBatch up to the loop: decode the request, or return the error batch
ProcessBatch(bytes, encodes) ==
    /\ pc = "idle"
    /\ requestBytes' = bytes
    /\ IF DecodeBatchRequest(bytes).err = ""
       THEN /\ batchReq' = DecodeBatchRequest(bytes).packets
            /\ pc' = "loop"
            /\ ret' = ret
       ELSE /\ batchReq' = batchReq
            /\ pc' = "done"
            /\ ret' = ReturnEncoded(createErrorBatchResponse("decode_error",
                                        DecodeBatchRequest(bytes).err), encodes)
    /\ UNCHANGED <<handlers, ctxDone, results, errs, ctxSeen, calls, routed>>
    /\ UNCHANGED <<regd, lastCall>>
    /\ UNCHANGED <<brokerVars, isoVars, packetVars, convVars, lockVars, codecVars>>

\* a loop iteration that stops the loop at the first failing packet
ProcessNextPacketAbort ==
    /\ pc = "loop"
    /\ Len(results) < Len(batchReq)
    /\ LET r == processSinglePacket(handlers, ctxDone, batchReq[Len(results) + 1])
       IN  /\ results' = Append(results, r.pr)
           /\ errs' = Append(errs, r.err)
           /\ calls' = calls \o r.calls
           /\ routed' = routed \o r.routed
           /\ batchReq' = IF r.err # "" THEN SubSeq(batchReq, 1, Len(results) + 1)
                          ELSE batchReq
    /\ ctxSeen' = Append(ctxSeen, ctxDone)
    /\ UNCHANGED <<handlers, pc, ctxDone, requestBytes, ret>>
    /\ UNCHANGED <<regd, lastCall>>
    /\ UNCHANGED <<brokerVars, isoVars, packetVars, convVars, lockVars, codecVars>>

\* a loop iteration that takes the packets from the back of the batch
ProcessNextPacketReversed ==
    /\ pc = "loop"
    /\ Len(results) < Len(batchReq)
    /\ LET r == processSinglePacket(handlers, ctxDone,
                                    batchReq[Len(batchReq) - Len(results)])
       IN  /\ results' = Append(results, r.pr)
           /\ errs' = Append(errs, r.err)
           /\ calls' = calls \o r.calls
           /\ routed' = routed \o r.routed
    /\ ctxSeen' = Append(ctxSeen, ctxDone)
    /\ UNCHANGED <<handlers, pc, ctxDone, requestBytes, batchReq, ret>>
    /\ UNCHANGED <<regd, lastCall>>
    /\ UNCHANGED <<brokerVars, isoVars, packetVars, convVars, lockVars, codecVars>>

\* a loop that hands a fresh context to the packets after a cancelled one
ProcessNextPacketFreshContext ==
    /\ pc = "loop"
    /\ Len(results) < Len(batchReq)
    /\ LET ctx == ctxDone /\ \A i \in 1 .. Len(errs) : errs[i] # "context canceled"
           r == processSinglePacket(handlers, ctx, batchReq[Len(results) + 1])
       IN  /\ results' = Append(results, r.pr)
           /\ errs' = Append(errs, r.err)
           /\ calls' = calls \o r.calls
           /\ routed' = routed \o r.routed
    /\ ctxSeen' = Append(ctxSeen, ctxDone)
    /\ UNCHANGED <<handlers, pc, ctxDone, requestBytes, batchReq, ret>>
    /\ UNCHANGED <<regd, lastCall>>
    /\ UNCHANGED <<brokerVars, isoVars, packetVars, convVars, lockVars, codecVars>>

\* one iteration of the loop of ProcessBatch
ProcessNextPacket ==
    /\ pc = "loop"
    /\ Len(results) < Len(batchReq)
    /\ LET r == processSinglePacket(handlers, ctxDone, batchReq[Len(results) + 1])
       IN  /\ results' = Append(results, r.pr)
           /\ errs' = Append(errs, r.err)
           /\ calls' = calls \o r.calls
           /\ routed' = routed \o r.routed
    /\ ctxSeen' = Append(ctxSeen, ctxDone)
    /\ UNCHANGED <<handlers, pc, ctxDone, requestBytes, batchReq, ret>>
    /\ UNCHANGED <<regd, lastCall>>
    /\ UNCHANGED <<brokerVars, isoVars, packetVars, convVars, lockVars, codecVars>>

\* a return that hands the first failing packet's error to the caller
ProcessBatchReturnFirstErr(encodes) ==
    /\ pc = "loop"
    /\ Len(results) = Len(batchReq)
    /\ ret' = IF \E i \in 1 .. Len(errs) : errs[i] # ""
              THEN [returned |-> TRUE, bytes |-> <<>>,
                    err |-> errs[CHOOSE i \in 1 .. Len(errs) :
                                    errs[i] # "" /\ \A j \in 1 .. i - 1 : errs[j] = ""],
                    encoded |-> encodes]
              ELSE ReturnEncoded(results, encodes)
    /\ pc' = "done"
    /\ UNCHANGED <<handlers, ctxDone, requestBytes, batchReq, results, errs, ctxSeen,
                   calls, routed>>
    /\ UNCHANGED <<regd, lastCall>>
    /\ UNCHANGED <<brokerVars, isoVars, packetVars, convVars, lockVars, codecVars>>

\* ProcessBatch after the loop: encode the BatchResponse and return
ProcessBatchReturn(encodes) ==
    /\ pc = "loop"
    /\ Len(results) = Len(batchReq)
    /\ ret' = ReturnEncoded(results, encodes)
    /\ pc' = "done"
    /\ UNCHANGED <<handlers, ctxDone, requestBytes, batchReq, results, errs, ctxSeen,
                   calls, routed>>
    /\ UNCHANGED <<regd, lastCall>>
    /\ UNCHANGED <<brokerVars, isoVars, packetVars, convVars, lockVars, codecVars>>

NextBatch ==
    \/ \E hs \in HandlerLists : RegisterHandler(hs)
    \/ CancelContext
    \/ pc = "idle" /\ \E bytes \in Requests, encodes \in BOOLEAN : ProcessBatch(bytes, encodes)
    \/ ProcessNextPacket
    \/ \E encodes \in BOOLEAN : ProcessBatchReturn(encodes)


\* newBroker: empty queue, no timer; cb: SetOnFlush has registered a callback
InitBrokerWith(cb) ==
    /\ onFlush = cb
    /\ queue = <<>>
    /\ timer = 0
    /\ timers = <<>>
    /\ now = 0
    /\ inCallback = FALSE
    /\ codecOK = TRUE
    /\ flushNowPending = FALSE
    /\ delivered = <<>>
    /\ enqLog = <<>>
    /\ lastEnq = 0
    /\ mark = 0
    /\ discarded = {}
    /\ nFlushNow = 0
    /\ nClear = 0

\* a timer that was stopped, or whose function has run
DeadTimer == [state |-> "dead", deadline |-> 0]

\* newBroker: no callback
InitBroker == InitBrokerWith(FALSE)

\* number of concurrent callers of the handler slot
MaxCalls == 2

Callers == 1 .. MaxCalls

\* no caller has started; the handler object is as it was registered
InitIso ==
    /\ instance = OriginalHandler
    /\ conc = [g \in Callers |->
                 [pc |-> "start", action |-> "", data |-> <<>>, args |-> <<>>, out |-> <<>>]]
    /\ steps = <<>>

\* no call of ProcessPacket has been made
NoPacketCall ==
    [state |-> "none", bytes |-> <<>>,
     packet |-> [Action |-> "", HandlerID |-> 0, ReqID |-> "", Data |-> <<>>],
     batchBytes |-> <<>>,
     out |-> [failed |-> FALSE, err |-> "", bytes |-> <<>>, encoded |-> TRUE]]

InitPacket == packetCall = NoPacketCall

\* no conversion has been called
NoConv ==
    [toAction |-> FALSE, method |-> "", action |-> 0,
     toMethod |-> FALSE, byte |-> 0, verb |-> "",
     back |-> FALSE, again |-> 0]

InitConv == conv = NoConv

InitLock == waiting = "none" /\ qlen = <<>>

\* before New: no instance yet
NoProbe == [op |-> "", codec |-> "nil", ok |-> FALSE, bytes |-> <<>>]
InitCodecs ==
    /\ cp = [built |-> FALSE, original |-> "nil", codec |-> "nil",
             broker |-> [codec |-> "nil", queue |-> <<>>, armed |-> FALSE]]
    /\ envelopes = <<>>
    /\ codecLog = <<>>
    /\ probe = NoProbe

Init == InitBroker /\ InitBatch /\ InitIso /\ InitPacket /\ InitConv /\ InitLock /\ InitCodecs

\* Timer.Stop: cancels a timer that has not fired; no effect otherwise
TimerStop(ts, t) ==
    IF t # 0 /\ ts[t].state = "armed" THEN [ts EXCEPT ![t] = DeadTimer] ELSE ts

\* resetTimerLocked that stops the pending timer without arming a new one
resetTimerLockedNoRearm(ts, t, clock) ==
    Append(TimerStop(ts, t), DeadTimer)

\* resetTimerLocked: stop b.timer, then b.timer = AfterFunc(batchWindow, flush)
resetTimerLocked(ts, t, clock) ==
    Append(TimerStop(ts, t), [state |-> "armed", deadline |-> clock + BatchWindow])

\* index of the first queue entry with the same handler and action, 0 if none
FindEntry(q, h, a) ==
    LET hits == {i \in 1 .. Len(q) : q[i].HandlerID = h /\ q[i].Action = a}
    IN  IF hits = {} THEN 0 ELSE CHOOSE i \in hits : \A j \in hits : i <= j

\* Enqueue that appends a new entry for every call
EnqueueQueueNoMerge(q, h, a, r, d) ==
    Append(q, [Action |-> a, HandlerID |-> h, ReqID |-> r, Data |-> <<d>>])

\* Enqueue that puts the entry of a new key in front of the queue
EnqueueQueuePrepends(q, h, a, r, d) ==
    LET i == FindEntry(q, h, a)
    IN  IF i # 0
        THEN [q EXCEPT ![i].Data = Append(q[i].Data, d)]
        ELSE <<[Action |-> a, HandlerID |-> h, ReqID |-> r, Data |-> <<d>>]>> \o q

\* Enqueue whose consolidated entry takes the reqID of the latest call
EnqueueQueueLatestReqID(q, h, a, r, d) ==
    LET i == FindEntry(q, h, a)
    IN  IF i # 0
        THEN [q EXCEPT ![i].Data = Append(q[i].Data, d), ![i].ReqID = r]
        ELSE Append(q, [Action |-> a, HandlerID |-> h, ReqID |-> r, Data |-> <<d>>])

\* the queue part of Enqueue: consolidate by handler+action or append
EnqueueQueue(q, h, a, r, d) ==
    LET i == FindEntry(q, h, a)
    IN  IF i # 0
        THEN [q EXCEPT ![i].Data = Append(q[i].Data, d)]
        ELSE Append(q, [Action |-> a, HandlerID |-> h, ReqID |-> r, Data |-> <<d>>])

\* broker.Enqueue; the n-th call carries reqID n and argument n
Enqueue(h, a) ==
    /\ ~inCallback
    /\ Len(enqLog) < MaxEnq
    /\ now + BatchWindow <= MaxTime
    /\ LET n == Len(enqLog) + 1
       IN  /\ queue' = EnqueueQueue(queue, h, a, n, n)
           /\ enqLog' = Append(enqLog, [HandlerID |-> h, Action |-> a,
                                        ReqID |-> n, Data |-> n])
    /\ lastEnq' = now
    /\ timers' = resetTimerLocked(timers, timer, now)
    /\ timer' = Len(timers')
    /\ UNCHANGED <<now, inCallback, onFlush, codecOK, flushNowPending,
                   delivered, mark, discarded, nFlushNow, nClear>>
    /\ UNCHANGED <<batchVars, isoVars, packetVars, convVars, lockVars, codecVars>>

\* flush that calls the callback but keeps the packets queued
FlushBodyKeepsQueue(src) ==
    IF queue = <<>> \/ ~codecOK
    THEN UNCHANGED <<queue, delivered, inCallback, mark>>
    ELSE /\ UNCHANGED <<queue, mark>>
         /\ IF onFlush
            THEN /\ delivered' = Append(delivered,
                        [bytes |-> EncodeBatchRequest(queue), src |-> src,
                         waited |-> now - lastEnq])
                 /\ inCallback' = TRUE
            ELSE UNCHANGED <<delivered, inCallback>>

\* flush without the empty-queue check
FlushBodyNoEmptyCheck(src) ==
    IF ~codecOK
    THEN UNCHANGED <<queue, delivered, inCallback, mark>>
    ELSE /\ queue' = <<>>
         /\ mark' = Len(enqLog)
         /\ IF onFlush
            THEN /\ delivered' = Append(delivered,
                        [bytes |-> EncodeBatchRequest(queue), src |-> src,
                         waited |-> now - lastEnq])
                 /\ inCallback' = TRUE
            ELSE UNCHANGED <<delivered, inCallback>>

\* flush that truncates the queue only when there is a callback to hand the
\* bytes to
FlushBodyKeepsUndelivered(src) ==
    IF queue = <<>> \/ ~codecOK \/ ~onFlush
    THEN UNCHANGED <<queue, delivered, inCallback, mark>>
    ELSE /\ queue' = <<>>
         /\ mark' = Len(enqLog)
         /\ delivered' = Append(delivered,
                [bytes |-> EncodeBatchRequest(queue), src |-> src,
                 waited |-> now - lastEnq])
         /\ inCallback' = TRUE

\* flush that truncates the queue before it encodes, losing the packets
\* when the encode fails
FlushBodyDropsOnEncodeError(src) ==
    IF queue = <<>>
    THEN UNCHANGED <<queue, delivered, inCallback, mark>>
    ELSE /\ queue' = <<>>
         /\ mark' = Len(enqLog)
         /\ IF onFlush /\ codecOK
            THEN /\ delivered' = Append(delivered,
                        [bytes |-> EncodeBatchRequest(queue), src |-> src,
                         waited |-> now - lastEnq])
                 /\ inCallback' = TRUE
            ELSE UNCHANGED <<delivered, inCallback>>

\* body of broker.flush, run with b.mu held
FlushBody(src) ==
    IF queue = <<>> \/ ~codecOK
    THEN UNCHANGED <<queue, delivered, inCallback, mark>>
    ELSE /\ queue' = <<>>
         /\ mark' = Len(enqLog)
         /\ IF onFlush
            THEN /\ delivered' = Append(delivered,
                        [bytes |-> EncodeBatchRequest(queue), src |-> src,
                         waited |-> now - lastEnq])
                 /\ inCallback' = TRUE
            ELSE UNCHANGED <<delivered, inCallback>>

\* the time provider runs the function of an armed timer at or after its deadline
TimerFire(i) ==
    /\ timers[i].state = "armed"
    /\ now >= timers[i].deadline
    /\ timers' = [timers EXCEPT ![i].state = "fired"]
    /\ UNCHANGED <<queue, timer, now, inCallback, onFlush, codecOK,
                   flushNowPending, delivered, enqLog, lastEnq, mark, discarded,
                   nFlushNow, nClear>>
    /\ UNCHANGED <<batchVars, isoVars, packetVars, convVars, lockVars, codecVars>>

\* broker.flush as the function of fired timer i, once it gets b.mu
flush(i) ==
    /\ timers[i].state = "fired"
    /\ ~inCallback
    /\ timers' = [timers EXCEPT ![i] = DeadTimer]
    /\ FlushBody("timer")
    /\ UNCHANGED <<timer, now, onFlush, codecOK, flushNowPending, enqLog, lastEnq,
                   discarded, nFlushNow, nClear>>
    /\ UNCHANGED <<batchVars, isoVars, packetVars, convVars, lockVars, codecVars>>

\* b.onFlush returns and the deferred Unlock of flush runs
CallbackReturn ==
    /\ inCallback
    /\ waiting = "none"
    /\ inCallback' = FALSE
    /\ UNCHANGED <<queue, timer, timers, now, onFlush, codecOK,
                   flushNowPending, delivered, enqLog, lastEnq, mark, discarded,
                   nFlushNow, nClear>>
    /\ UNCHANGED <<batchVars, isoVars, packetVars, convVars, lockVars, codecVars>>

\* broker.FlushNow, first half: Stop on b.timer, read without b.mu
FlushNowStop ==
    /\ nFlushNow < MaxFlushNow
    /\ ~flushNowPending
    /\ nFlushNow' = nFlushNow + 1
    /\ flushNowPending' = TRUE
    /\ timers' = TimerStop(timers, timer)
    /\ UNCHANGED <<queue, timer, now, inCallback, onFlush, codecOK,
                   delivered, enqLog, lastEnq, mark, discarded, nClear>>
    /\ UNCHANGED <<batchVars, isoVars, packetVars, convVars, lockVars, codecVars>>

\* broker.FlushNow, second half: the call of b.flush
FlushNowFlush ==
    /\ flushNowPending
    /\ ~inCallback
    /\ flushNowPending' = FALSE
    /\ FlushBody("now")
    /\ UNCHANGED <<timer, timers, now, onFlush, codecOK, enqLog, lastEnq, discarded,
                   nFlushNow, nClear>>
    /\ UNCHANGED <<batchVars, isoVars, packetVars, convVars, lockVars, codecVars>>

\* arguments held by a sequence of packets
RECURSIVE ArgsOf(_)
ArgsOf(ps) ==
    IF ps = <<>> THEN {}
    ELSE {Head(ps).Data[j] : j \in 1 .. Len(Head(ps).Data)} \cup ArgsOf(Tail(ps))

\* Clear that stops the timer but leaves the packets queued
ClearKeepsQueue ==
    /\ ~inCallback
    /\ nClear < MaxClear
    /\ nClear' = nClear + 1
    /\ timers' = TimerStop(timers, timer)
    /\ timer' = 0
    /\ discarded' = discarded \cup ArgsOf(queue)
    /\ UNCHANGED <<queue, mark, now, inCallback, onFlush, codecOK, flushNowPending,
                   delivered, enqLog, lastEnq, nFlushNow>>
    /\ UNCHANGED <<batchVars, isoVars, packetVars, convVars, lockVars, codecVars>>

\* broker.Clear
Clear ==
    /\ ~inCallback
    /\ nClear < MaxClear
    /\ nClear' = nClear + 1
    /\ timers' = TimerStop(timers, timer)
    /\ timer' = 0
    /\ queue' = <<>>
    /\ mark' = Len(enqLog)
    /\ discarded' = discarded \cup ArgsOf(queue)
    /\ UNCHANGED <<now, inCallback, onFlush, codecOK, flushNowPending,
                   delivered, enqLog, lastEnq, nFlushNow>>
    /\ UNCHANGED <<batchVars, isoVars, packetVars, convVars, lockVars, codecVars>>

\* broker.SetOnFlush(fn), fn nil or not
SetOnFlush(fn) ==
    /\ ~inCallback
    /\ onFlush' = fn
    /\ UNCHANGED <<queue, timer, timers, now, inCallback, codecOK,
                   flushNowPending, delivered, enqLog, lastEnq, mark, discarded,
                   nFlushNow, nClear>>
    /\ UNCHANGED <<batchVars, isoVars, packetVars, convVars, lockVars, codecVars>>

\* the clock advances
Tick ==
    /\ now < MaxTime
    /\ now' = now + 1
    /\ UNCHANGED <<queue, timer, timers, inCallback, onFlush, codecOK,
                   flushNowPending, delivered, enqLog, lastEnq, mark, discarded,
                   nFlushNow, nClear>>
    /\ UNCHANGED <<batchVars, isoVars, packetVars, convVars, lockVars, codecVars>>

\* the injected codec starts or stops failing to encode
CodecToggle ==
    /\ codecOK' = ~codecOK
    /\ UNCHANGED <<queue, timer, timers, now, inCallback, onFlush,
                   flushNowPending, delivered, enqLog, lastEnq, mark, discarded,
                   nFlushNow, nClear>>
    /\ UNCHANGED <<batchVars, isoVars, packetVars, convVars, lockVars, codecVars>>

NextBroker ==
    \/ \E k \in BrokerKeys : Enqueue(k[1], k[2])
    \/ \E i \in 1 .. Len(timers) : TimerFire(i)
    \/ \E i \in 1 .. Len(timers) : flush(i)
    \/ CallbackReturn
    \/ FlushNowStop
    \/ FlushNowFlush
    \/ Clear
    \/ \E fn \in BOOLEAN : SetOnFlush(fn)
    \/ Tick
    \/ CodecToggle

SpecBroker == Init /\ [][NextBroker]_vars

\* calls of QueueLength made in one run
MaxQueueLength == 1

\* QueueLength that reads len(b.queue) without taking b.mu
QueueLengthUnlocked ==
    /\ Len(qlen) < MaxQueueLength
    /\ qlen' = Append(qlen, Len(queue))
    /\ UNCHANGED <<brokerVars, waiting>>
    /\ UNCHANGED <<batchVars, isoVars, packetVars, convVars, codecVars>>

\* broker.QueueLength: Lock, read len(b.queue), Unlock
QueueLength ==
    /\ ~inCallback
    /\ Len(qlen) < MaxQueueLength
    /\ qlen' = Append(qlen, Len(queue))
    /\ UNCHANGED <<brokerVars, waiting>>
    /\ UNCHANGED <<batchVars, isoVars, packetVars, convVars, codecVars>>

\* the broker methods a callback can call on the broker that runs it
BrokerCalls == {"Enqueue", "Clear", "QueueLength", "SetOnFlush", "FlushNow"}

\* the callback, running inside flush, calls op on the same broker: FlushNow
\* stops b.timer first; then every one of them calls b.mu.Lock, which the
\* flush that runs the callback holds, and sync.Mutex is not reentrant
CallbackReenters(op) ==
    /\ inCallback
    /\ waiting = "none"
    /\ waiting' = op
    /\ timers' = IF op = "FlushNow" THEN TimerStop(timers, timer) ELSE timers
    /\ UNCHANGED <<queue, timer, now, inCallback, onFlush, codecOK,
                   flushNowPending, delivered, enqLog, lastEnq, mark, discarded,
                   nFlushNow, nClear, qlen>>
    /\ UNCHANGED <<batchVars, isoVars, packetVars, convVars, codecVars>>

\* the broker with callers of QueueLength and a callback that calls back
NextLock ==
    \/ \E k \in BrokerKeys : Enqueue(k[1], k[2])
    \/ \E i \in 1 .. Len(timers) : TimerFire(i)
    \/ \E i \in 1 .. Len(timers) : flush(i)
    \/ CallbackReturn
    \/ FlushNowStop
    \/ FlushNowFlush
    \/ Clear
    \/ \E fn \in BOOLEAN : SetOnFlush(fn)
    \/ Tick
    \/ QueueLength
    \/ \E op \in BrokerCalls : CallbackReenters(op)

SpecLock == Init /\ [][NextLock]_vars

(***************************************************************************)
(* CrudP and its broker, each with the codec it holds.                     *)
(***************************************************************************)
\* SetCodec and EnqueuePacket calls made in one run
MaxSetCodec == 2
MaxEnqueuePacket == 2

\* the codecs a caller can supply; "json" is getDefaultCodec(), "nil" is nil
Codecs == {"json", "custom", "mock"}
CodecArgs == Codecs \cup {"nil"}

\* Encode and Decode of codec c: its own format, read by no other codec
CodecEncode(c, v) == [ok |-> v.kind # "chan", bytes |-> <<c, v>>]
CodecDecode(c, b) ==
    IF Len(b) = 2 /\ b[1] = c
    THEN [ok |-> TRUE, value |-> b[2]]
    ELSE [ok |-> FALSE, value |-> Unencodable]

\* the values handed to EnqueuePacket and EncodePacket
CodecValues == {User("Alice", 0), Unencodable}

\* New(cfg), then Broker().SetOnFlush(fn): cfg.Codec or the default codec
\* goes to cp.codec and to newBroker
New(c) ==
    /\ ~cp.built
    /\ LET codec == IF c = "nil" THEN "json" ELSE c
       IN  cp' = [built |-> TRUE, original |-> codec, codec |-> codec,
                  broker |-> [codec |-> codec, queue |-> <<>>, armed |-> FALSE]]
    /\ UNCHANGED <<envelopes, codecLog, probe>>
    /\ UNCHANGED <<brokerVars, batchVars, isoVars, packetVars, convVars, lockVars>>

\* SetCodec that hands the codec to the broker too
SetCodecAlsoBroker(c) ==
    /\ cp.built
    /\ Len(codecLog) < MaxSetCodec
    /\ codecLog' = Append(codecLog, c)
    /\ cp' = IF c # "nil" THEN [cp EXCEPT !.codec = c, !.broker.codec = c] ELSE cp
    /\ UNCHANGED <<envelopes, probe>>
    /\ UNCHANGED <<brokerVars, batchVars, isoVars, packetVars, convVars, lockVars>>

\* CrudP.SetCodec(codec)
SetCodec(c) ==
    /\ cp.built
    /\ Len(codecLog) < MaxSetCodec
    /\ codecLog' = Append(codecLog, c)
    /\ cp' = IF c # "nil" THEN [cp EXCEPT !.codec = c] ELSE cp
    /\ UNCHANGED <<envelopes, probe>>
    /\ UNCHANGED <<brokerVars, batchVars, isoVars, packetVars, convVars, lockVars>>

\* the number of arguments held by a sequence of packets
RECURSIVE CountArgs(_)
CountArgs(ps) == IF ps = <<>> THEN 0 ELSE Len(Head(ps).Data) + CountArgs(Tail(ps))

\* the Enqueue calls that reached the broker so far
RECURSIVE Flushed(_)
Flushed(k) == IF k = 0 THEN 0 ELSE CountArgs(envelopes[k][2].Packets) + Flushed(k - 1)
Enqueued == CountArgs(cp.broker.queue) + Flushed(Len(envelopes))

\* CrudP.EnqueuePacket: cp.codec encodes the argument, broker.Enqueue
\* queues it and arms the timer; an encode error returns before that
EnqueuePacket(h, a, v) ==
    /\ cp.built
    /\ Enqueued < MaxEnqueuePacket
    /\ LET e == CodecEncode(cp.codec, v)
       IN  /\ probe' = [op |-> "EnqueuePacket", codec |-> cp.codec, ok |-> e.ok,
                        bytes |-> IF e.ok THEN e.bytes ELSE <<>>]
           /\ cp' = IF e.ok
                    THEN [cp EXCEPT !.broker.queue =
                                        EnqueueQueue(@, h, a, "q", e.bytes),
                                    !.broker.armed = TRUE]
                    ELSE cp
    /\ UNCHANGED <<envelopes, codecLog>>
    /\ UNCHANGED <<brokerVars, batchVars, isoVars, packetVars, convVars, lockVars>>

\* broker.flush of cp.broker, from its timer or from FlushNow,
\* which stops the timer first: b.codec encodes the BatchRequest
BrokerFlush(viaFlushNow) ==
    /\ cp.built
    /\ viaFlushNow \/ cp.broker.armed
    /\ LET e == CodecEncode(cp.broker.codec,
                            [kind |-> "BatchRequest", Packets |-> cp.broker.queue])
       IN  /\ envelopes' = IF cp.broker.queue # <<>> /\ e.ok
                           THEN Append(envelopes, e.bytes) ELSE envelopes
           /\ cp' = [cp EXCEPT !.broker.armed = FALSE,
                               !.broker.queue =
                                   IF cp.broker.queue # <<>> /\ e.ok THEN <<>> ELSE @]
    /\ UNCHANGED <<codecLog, probe>>
    /\ UNCHANGED <<brokerVars, batchVars, isoVars, packetVars, convVars, lockVars>>

\* CrudP.EncodePacket for one argument: cp.codec encodes the argument and
\* then the packet
EncodePacketCall(v) ==
    /\ cp.built
    /\ LET d == CodecEncode(cp.codec, v)
           e == CodecEncode(cp.codec,
                   [kind |-> "Packet", Action |-> "c", HandlerID |-> 0, ReqID |-> "r1",
                    Data |-> <<d.bytes>>])
       IN  probe' = [op |-> "EncodePacket", codec |-> cp.codec, ok |-> d.ok,
                     bytes |-> IF d.ok THEN e.bytes ELSE <<>>]
    /\ UNCHANGED <<cp, envelopes, codecLog>>
    /\ UNCHANGED <<brokerVars, batchVars, isoVars, packetVars, convVars, lockVars>>

\* CrudP.ProcessBatch on a flushed envelope: cp.codec decodes the request
ProcessEnvelope(i) ==
    /\ cp.built
    /\ probe' = [op |-> "ProcessBatch", codec |-> cp.codec,
                 ok |-> CodecDecode(cp.codec, envelopes[i]).ok,
                 bytes |-> envelopes[i]]
    /\ UNCHANGED <<cp, envelopes, codecLog>>
    /\ UNCHANGED <<brokerVars, batchVars, isoVars, packetVars, convVars, lockVars>>

NextCodec ==
    \/ \E c \in CodecArgs : New(c)
    \/ \E c \in CodecArgs : SetCodec(c)
    \/ \E a \in {"c", "u"}, v \in CodecValues : EnqueuePacket(0, a, v)
    \/ \E viaFlushNow \in BOOLEAN : BrokerFlush(viaFlushNow)
    \/ \E v \in CodecValues : EncodePacketCall(v)
    \/ \E i \in 1 .. Len(envelopes) : ProcessEnvelope(i)

SpecCodec == Init /\ [][NextCodec]_vars

SpecBatch == Init /\ [][NextBatch]_vars

\* registration and direct dispatch
NextDispatch ==
    \/ \E hs \in RegisterInputs : RegisterHandler(hs)
    \/ \E h \in HandlerIDs, action \in Actions, data \in ArgLists, ctx \in BOOLEAN :
          CallHandlerCall(h, action, data, ctx)

SpecDispatch == Init /\ [][NextDispatch]_vars

(***************************************************************************)
(* Registration of handler lists around the range of a uint8 handlerID,   *)
(* followed by direct calls.                                               *)
(***************************************************************************)
\* n handlers, UserHandler everywhere but MultiHandler at the last position
ManyHandlers(n) == [i \in 1 .. n |-> IF i = n THEN MultiHandler ELSE UserHandler]

\* lists of 255, 256 and 257 handlers
WideInputs == {ManyHandlers(n) : n \in {255, 256, 257}}

\* handlers are registered before the first call is made
NextRegister ==
    \/ ~lastCall.made /\ \E hs \in WideInputs \cup HandlerLists : RegisterHandler(hs)
    \/ \E h \in HandlerIDs, action \in Actions, data \in ArgLists, ctx \in BOOLEAN :
          CallHandlerCall(h, action, data, ctx)

SpecRegister == Init /\ [][NextRegister]_vars

(***************************************************************************)
(* ProcessPacket: decode the packet, wrap it in a batch of one, call       *)
(* ProcessBatch, unwrap the one result.                                    *)
(***************************************************************************)
\* request bytes: encoded packets, and bytes that do not decode
PacketRequests ==
    {EncodePacket(p) : p \in PacketMenu}
        \cup {Garbage} \cup {Truncate(EncodePacket(p)) : p \in PacketMenu}

\* return nil, err
PacketFailed(err) == [failed |-> TRUE, err |-> err, bytes |-> <<>>, encoded |-> TRUE]

\* ProcessPacket up to its call of ProcessBatch: DecodePacket, then the
\* encode of the one-element BatchRequest (encodes: the codec encodes it)
ProcessPacket(bytes, encodes) ==
    /\ pc = "idle"
    /\ packetCall.state = "none"
    /\ LET d == DecodePacket(bytes)
       IN  packetCall' =
             IF d.err # ""
             THEN [NoPacketCall EXCEPT !.state = "returned", !.bytes = bytes,
                                       !.out = PacketFailed(d.err)]
             ELSE IF ~encodes
             THEN [NoPacketCall EXCEPT !.state = "returned", !.bytes = bytes,
                                       !.packet = d.packet,
                                       !.out = PacketFailed("encode error")]
             ELSE [NoPacketCall EXCEPT !.state = "call", !.bytes = bytes,
                                       !.packet = d.packet,
                                       !.batchBytes = EncodeBatchRequest(<<d.packet>>)]
    /\ UNCHANGED <<brokerVars, batchVars, isoVars, convVars, lockVars, codecVars>>

\* a ProcessPacket that answers an Error-typed result with a packet too
ProcessPacketReturnErrorAsPacket(encodes) ==
    /\ packetCall.state = "call"
    /\ pc = "done"
    /\ LET resp == DecodeBatchResponse(ret.bytes)
           result == resp.results[1]
       IN  packetCall' = [packetCall EXCEPT !.state = "returned", !.out =
             IF ret.err # "" THEN PacketFailed(ret.err)
             ELSE IF ~resp.ok THEN PacketFailed("invalid character")
             ELSE IF Len(resp.results) # 1 THEN PacketFailed("unexpected batch results")
             ELSE IF ~encodes
             THEN [failed |-> TRUE, err |-> "encode error", bytes |-> <<>>, encoded |-> FALSE]
             ELSE [failed |-> FALSE, err |-> "", encoded |-> TRUE,
                   bytes |-> EncodePacket([Action |-> packetCall.packet.Action,
                                           HandlerID |-> packetCall.packet.HandlerID,
                                           ReqID |-> result.ReqID,
                                           Data |-> result.Data])]]
    /\ UNCHANGED <<brokerVars, batchVars, isoVars, convVars, lockVars, codecVars>>

\* ProcessPacket after ProcessBatch has returned: decode the BatchResponse,
\* check it has one result, turn an Error result into an error, otherwise
\* encode the response packet (encodes: the codec encodes it)
ProcessPacketReturn(encodes) ==
    /\ packetCall.state = "call"
    /\ pc = "done"
    /\ LET resp == DecodeBatchResponse(ret.bytes)
           result == resp.results[1]
       IN  packetCall' = [packetCall EXCEPT !.state = "returned", !.out =
             IF ret.err # "" THEN PacketFailed(ret.err)
             ELSE IF ~resp.ok THEN PacketFailed("invalid character")
             ELSE IF Len(resp.results) # 1 THEN PacketFailed("unexpected batch results")
             ELSE IF result.MessageType = MsgError THEN PacketFailed(result.Message)
             ELSE IF ~encodes
             THEN [failed |-> TRUE, err |-> "encode error", bytes |-> <<>>, encoded |-> FALSE]
             ELSE [failed |-> FALSE, err |-> "", encoded |-> TRUE,
                   bytes |-> EncodePacket([Action |-> packetCall.packet.Action,
                                           HandlerID |-> packetCall.packet.HandlerID,
                                           ReqID |-> result.ReqID,
                                           Data |-> result.Data])]]
    /\ UNCHANGED <<brokerVars, batchVars, isoVars, convVars, lockVars, codecVars>>

NextPacket ==
    \/ packetCall.state = "none" /\ \E hs \in HandlerLists : RegisterHandler(hs)
    \/ CancelContext
    \/ \E bytes \in PacketRequests, encodes \in BOOLEAN : ProcessPacket(bytes, encodes)
    \/ packetCall.state = "call"
          /\ \E encodes \in BOOLEAN : ProcessBatch(packetCall.batchBytes, encodes)
    \/ ProcessNextPacket
    \/ \E encodes \in BOOLEAN : ProcessBatchReturn(encodes)
    \/ \E encodes \in BOOLEAN : ProcessPacketReturn(encodes)

SpecPacket == Init /\ [][NextPacket]_vars

(***************************************************************************)
(* Callers of MethodToAction and ActionToMethod.                           *)
(***************************************************************************)
\* the methods and bytes the conversions are called with
Methods == {"POST", "GET", "PUT", "DELETE", "INVALID", "", "post", "PATCH", "HEAD", "c"}
Bytes == 0 .. 255

\* action := MethodToAction(method)
MethodToActionCall(method) ==
    /\ conv' = [conv EXCEPT !.toAction = TRUE, !.method = method,
                            !.action = MethodToAction(method)]
    /\ UNCHANGED <<brokerVars, batchVars, isoVars, packetVars, lockVars, codecVars>>

\* verb := ActionToMethod(byte)
ActionToMethodCall(byte) ==
    /\ conv' = [conv EXCEPT !.toMethod = TRUE, !.byte = byte,
                            !.verb = ActionToMethod(byte),
                            !.back = FALSE, !.again = 0]
    /\ UNCHANGED <<brokerVars, batchVars, isoVars, packetVars, lockVars, codecVars>>

\* again := MethodToAction(verb), on the verb ActionToMethod returned
RoundTripCall ==
    /\ conv.toMethod
    /\ ~conv.back
    /\ conv' = [conv EXCEPT !.back = TRUE, !.again = MethodToAction(conv.verb)]
    /\ UNCHANGED <<brokerVars, batchVars, isoVars, packetVars, lockVars, codecVars>>

NextConv ==
    \/ \E method \in Methods : MethodToActionCall(method)
    \/ \E byte \in Bytes : ActionToMethodCall(byte)
    \/ RoundTripCall

SpecConv == Init /\ [][NextConv]_vars

(***************************************************************************)
(* Callers that process one packet each for the handler at slot 0, in any  *)
(* interleaving of their typed decode and their handler call.              *)
(***************************************************************************)
\* the argument buffers and actions of the callers' packets
IsoBuffers == {<<Arg("Alice")>>, <<Arg("Bob")>>, <<Arg("Alice"), Arg("Bob")>>}
IsoActions == {"c", "r"}

\* processSinglePacket of caller g, first statement: the typed decode
DecodeStep(g, action, data) ==
    /\ conc[g].pc = "start"
    /\ LET r == decodeItems(instance, data)
       IN  /\ instance' = r.instance
           /\ conc' = [conc EXCEPT ![g] = [pc |-> "decoded", action |-> action,
                                          data |-> data, args |-> r.args, out |-> <<>>]]
    /\ steps' = Append(steps, <<g, "decode">>)
    /\ UNCHANGED <<brokerVars, batchVars, packetVars, convVars, lockVars, codecVars>>

\* processSinglePacket of caller g, second statement: the handler method
\* reads its arguments and returns
CallStep(g) ==
    /\ conc[g].pc = "decoded"
    /\ LET slot == RegisterTable(<<UserHandler>>)[1]
           data == [j \in 1 .. Len(conc[g].args) |-> Deref(conc[g].args[j], instance)]
       IN  conc' = [conc EXCEPT ![g].pc = "done",
                                ![g].out = Invoke(BoundMethod(slot, conc[g].action), data).items]
    /\ steps' = Append(steps, <<g, "call">>)
    /\ UNCHANGED instance
    /\ UNCHANGED <<brokerVars, batchVars, packetVars, convVars, lockVars, codecVars>>

NextIso ==
    \/ \E g \in Callers, action \in IsoActions, data \in IsoBuffers : DecodeStep(g, action, data)
    \/ \E g \in Callers : CallStep(g)

SpecIso == Init /\ [][NextIso]_vars

(***************************************************************************)
(* The broker with a callback registered, a codec that encodes and no      *)
(* Clear, under fair scheduling: time passes, due timers run their         *)
(* function, a flush waiting for b.mu gets it, the callback returns.       *)
(***************************************************************************)
InitLive == InitBrokerWith(TRUE) /\ InitBatch /\ InitIso /\ InitPacket /\ InitConv /\ InitLock /\ InitCodecs

NextLive ==
    \/ \E k \in BrokerKeys : Enqueue(k[1], k[2])
    \/ \E i \in 1 .. Len(timers) : TimerFire(i)
    \/ \E i \in 1 .. Len(timers) : flush(i)
    \/ CallbackReturn
    \/ FlushNowStop
    \/ FlushNowFlush
    \/ Tick

FairLive ==
    /\ WF_vars(Tick)
    /\ WF_vars(CallbackReturn)
    /\ WF_vars(FlushNowFlush)
    /\ \A i \in 1 .. MaxEnq : WF_vars(i <= Len(timers) /\ TimerFire(i))
    /\ \A i \in 1 .. MaxEnq : WF_vars(i <= Len(timers) /\ flush(i))

SpecBrokerLive == InitLive /\ [][NextLive]_vars /\ FairLive

(***************************************************************************)
(* Properties of the broker.                                               *)
(***************************************************************************)
KeyOf(e) == <<e.HandlerID, e.Action>>

\* the arguments enqueued for key k, in call order
RECURSIVE DataFor(_, _)
DataFor(log, k) ==
    IF log = <<>> THEN <<>>
    ELSE (IF KeyOf(Head(log)) = k THEN <<Head(log).Data>> ELSE <<>>)
            \o DataFor(Tail(log), k)

\* C2: before any flush or Clear, after k Enqueue calls for one key and k'
\* calls for pairwise distinct other keys, in any order, the queue has
\* 1 + k' entries and the entry of the repeated key holds exactly the k
\* arguments in enqueue order.
C2_Consolidation ==
    mark = 0 =>
        \A k \in BrokerKeys :
            LET same == {i \in 1 .. Len(enqLog) : KeyOf(enqLog[i]) = k}
                others == (1 .. Len(enqLog)) \ same
            IN  (/\ same # {}
                 /\ \A i, j \in others : i # j => KeyOf(enqLog[i]) # KeyOf(enqLog[j]))
                => /\ Len(queue) = 1 + Cardinality(others)
                   /\ Cardinality({i \in 1 .. Len(queue) : KeyOf(queue[i]) = k}) = 1
                   /\ \A i \in 1 .. Len(queue) :
                         KeyOf(queue[i]) = k => queue[i].Data = DataFor(enqLog, k)

\* two calls for one key around a call for another key, nothing flushed yet
C2_Witness ==
    /\ mark = 0
    /\ Len(enqLog) = 3
    /\ KeyOf(enqLog[1]) = KeyOf(enqLog[3])
    /\ KeyOf(enqLog[1]) # KeyOf(enqLog[2])
    /\ Len(queue) = 2
    /\ queue[1].Data = <<1, 3>>

\* C3 as stated: a timer-driven flush never calls the callback before one
\* full batch window has elapsed since the last Enqueue.
C3_Debounce ==
    \A i \in 1 .. Len(delivered) :
        delivered[i].src = "timer" => delivered[i].waited >= BatchWindow

\* a step in which the body of flush runs
FlushStep ==
    \/ flushNowPending /\ ~flushNowPending'
    \/ \E i \in 1 .. Len(timers) : timers[i].state = "fired" /\ timers'[i] = DeadTimer

Increasing(d) == \A i, j \in 1 .. Len(d) : i < j => d[i] < d[j]

\* C4: a flush of a non-empty queue with a callback registered and an
\* encoding codec calls the callback exactly once, with bytes that decode to
\* the queue's entries in queue order, each with its data in enqueue order,
\* and leaves the queue empty.
C4_FlushDelivers ==
    [][(FlushStep /\ queue # <<>> /\ onFlush /\ codecOK) =>
          /\ Len(delivered') = Len(delivered) + 1
          /\ SubSeq(delivered', 1, Len(delivered)) = delivered
          /\ DecodeBatchRequest(delivered'[Len(delivered')].bytes)
                = [err |-> "", packets |-> queue]
          /\ \A i \in 1 .. Len(queue) : Increasing(queue[i].Data)
          /\ queue' = <<>>]_vars

\* the decoded packets of the i-th callback invocation
DeliveredPackets(i) == DecodeBatchRequest(delivered[i].bytes).packets

\* a flush has delivered a batch of two entries, the first one consolidated
\* from the first and third Enqueue, and left the queue empty
C4_Witness ==
    /\ queue = <<>>
    /\ \E i \in 1 .. Len(delivered) :
          /\ Len(DeliveredPackets(i)) = 2
          /\ DeliveredPackets(i)[1].Data = <<1, 3>>
          /\ DeliveredPackets(i)[2].Data = <<2>>

\* C5: a flush of an empty queue, timer-fired or forced, does not call the
\* callback, and every batch the callback ever got holds at least one packet.
C5_NoEmptyFlush ==
    /\ [](\A i \in 1 .. Len(delivered) :
            /\ DecodeBatchRequest(delivered[i].bytes).err = ""
            /\ Len(DeliveredPackets(i)) >= 1)
    /\ [][(FlushStep /\ queue = <<>>) =>
            (delivered' = delivered /\ queue' = <<>> /\ ~inCallback')]_vars

\* FlushNow has run on a queue that was never filled, callback registered and
\* not called
C5_Witness ==
    /\ nFlushNow = 1 /\ ~flushNowPending
    /\ enqLog = <<>>
    /\ onFlush /\ codecOK
    /\ delivered = <<>>

\* every argument a callback invocation has received
DeliveredArgs == UNION {ArgsOf(DeliveredPackets(i)) : i \in 1 .. Len(delivered)}

\* C6: with a callback registered, an encoding codec and no Clear, every
\* argument passed to Enqueue is eventually handed to the callback inside an
\* encoded BatchRequest, and a non-empty queue eventually becomes empty.
C6_EventuallyDelivered ==
    /\ \A n \in 1 .. MaxEnq : (Len(enqLog) >= n) ~> (n \in DeliveredArgs)
    /\ (queue # <<>>) ~> (queue = <<>>)

\* three enqueued arguments were all delivered by timer-driven flushes only
C6_Witness ==
    /\ Len(enqLog) = 3
    /\ DeliveredArgs = {1, 2, 3}
    /\ queue = <<>>
    /\ \A i \in 1 .. Len(delivered) : delivered[i].src = "timer"

\* C7: Clear stops the pending timer and empties the queue without calling
\* the callback; no packet queued at a Clear is ever delivered, and every
\* batch delivered after a Clear holds only arguments enqueued after it.
C7_ClearDiscards ==
    /\ [](discarded \cap DeliveredArgs = {})
    /\ [][(nClear' # nClear) =>
            /\ queue' = <<>>
            /\ delivered' = delivered
            /\ inCallback' = inCallback
            /\ timer' = 0
            /\ \A i \in 1 .. Len(timers) : timers'[i].state # "armed"]_vars
    /\ [][(delivered' # delivered) =>
            \A a \in ArgsOf(DecodeBatchRequest(delivered'[Len(delivered')].bytes).packets) :
                a > mark /\ a \notin discarded]_vars

\* Clear ran between the expiry of a timer and the flush that timer started,
\* discarding queued packets; that flush is still waiting
C7_Witness ==
    /\ nClear = 1
    /\ discarded # {}
    /\ queue = <<>>
    /\ \E i \in 1 .. Len(timers) : timers[i].state = "fired"

(***************************************************************************)
(* Properties of the batch processor.                                      *)
(***************************************************************************)
\* the decoded request and the decoded response of a finished call
Request == DecodeBatchRequest(requestBytes)
Response == DecodeBatchResponse(ret.bytes)
Finished == pc = "done" /\ Request.err = ""

\* positions of the request whose handlerID is not registered
OutOfRange == {i \in 1 .. Len(Request.packets) :
                  Request.packets[i].HandlerID >= Len(handlers)}

\* the result packet i gets as the only packet of a batch, under the context
\* state it was processed in
Alone(i) == processSinglePacket(handlers, ctxSeen[i], Request.packets[i]).pr

\* C1 as stated: a decodable batch of N packets always returns a
\* BatchResponse of N results, and with exactly one out-of-range packet that
\* result is the only Error while the others have their stand-alone type.
C1_AsStated ==
    Finished =>
        /\ ret.err = ""
        /\ Response.ok
        /\ Len(Response.results) = Len(Request.packets)
        /\ Cardinality(OutOfRange) = 1 =>
              \A i \in 1 .. Len(Request.packets) :
                  /\ (Response.results[i].MessageType = MsgError) <=> (i \in OutOfRange)
                  /\ i \notin OutOfRange =>
                        Response.results[i].MessageType = Alone(i).MessageType

\* C1 (amended): when the response envelope encodes, a decodable batch of N
\* packets returns exactly N results; with exactly one out-of-range packet
\* that packet's result is Error and every other result has the messageType
\* the packet gets on its own (Error too, if it fails on its own).
C1_PartialFailure ==
    (Finished /\ ret.err = "") =>
        /\ Response.ok
        /\ Len(Response.results) = Len(Request.packets)
        /\ Cardinality(OutOfRange) = 1 =>
              \A i \in 1 .. Len(Request.packets) :
                  /\ i \in OutOfRange => Response.results[i].MessageType = MsgError
                  /\ i \notin OutOfRange =>
                        Response.results[i].MessageType = Alone(i).MessageType

\* a three-packet batch with one out-of-range packet, one packet that fails on
\* its own and one that succeeds has been answered
C1_Witness ==
    /\ Finished /\ ret.err = ""
    /\ Len(Request.packets) = 3
    /\ Cardinality(OutOfRange) = 1
    /\ \E i, j \in 1 .. 3 :
          /\ i \notin OutOfRange /\ j \notin OutOfRange
          /\ Response.results[i].MessageType = MsgError
          /\ Response.results[j].MessageType = MsgSuccess

\* the handler invocations packets 1..n cause, in packet order
RECURSIVE CallsUpTo(_)
CallsUpTo(n) ==
    IF n = 0 THEN <<>>
    ELSE CallsUpTo(n - 1)
            \o processSinglePacket(handlers, ctxSeen[n], batchReq[n]).calls

SameIdentity(r, p) ==
    r.ReqID = p.ReqID /\ r.HandlerID = p.HandlerID /\ r.Action = p.Action

\* C8: packets are processed in input order, and the i-th PacketResult carries
\* the reqID, handlerID and action of the i-th packet, in the results built by
\* the loop and in the returned response.
C8_OrderAndIdentity ==
    /\ pc = "loop" => Len(results) <= Len(batchReq)
    /\ pc \in {"loop", "done"} =>
          /\ \A i \in 1 .. Len(results) : SameIdentity(results[i], batchReq[i])
          /\ calls = CallsUpTo(Len(results))
    /\ (Finished /\ ret.err = "") =>
          /\ Len(Response.results) = Len(Request.packets)
          /\ \A i \in 1 .. Len(Response.results) :
                SameIdentity(Response.results[i], Request.packets[i])

\* a response to a batch of three packets with three different identities,
\* at least two of which invoked a handler
C8_Witness ==
    /\ Finished /\ ret.err = ""
    /\ Len(Response.results) = 3
    /\ Cardinality({Response.results[i].ReqID : i \in 1 .. 3}) = 3
    /\ Len(calls) >= 2

\* C9: every PacketResult is either Success with message "OK" (the packet's
\* processing returned no error) or Error with the failing step's error text;
\* no other message type occurs.
C9_SuccessXorError ==
    \A i \in 1 .. Len(results) :
        \/ /\ results[i].MessageType = MsgSuccess
           /\ results[i].Message = "OK"
           /\ errs[i] = ""
        \/ /\ results[i].MessageType = MsgError
           /\ results[i].Message = errs[i]
           /\ errs[i] # ""
           /\ results[i].Message # "OK"

\* a batch has produced a Success result and three differently failing ones
C9_Witness ==
    /\ \E i \in 1 .. Len(results) : results[i].MessageType = MsgSuccess
    /\ Cardinality({results[i].Message : i \in 1 .. Len(results)}) = 3
    /\ Cardinality({i \in 1 .. Len(results) : results[i].MessageType = MsgError}) = 2

Rejected == pc = "done" /\ Request.err # ""

\* C10 as stated: an undecodable request invokes no handler and returns,
\* with no function-level error, one Error result with the decode error text.
C10_AsStated ==
    Rejected =>
        /\ calls = <<>>
        /\ ret.err = ""
        /\ Response.ok
        /\ Len(Response.results) = 1
        /\ Response.results[1].MessageType = MsgError
        /\ Response.results[1].Message = Request.err

\* C10 (amended): an undecodable request invokes no handler; if the error
\* response encodes, ProcessBatch returns it without a function-level error
\* and it holds exactly one Error result whose message is the decode error's
\* text; otherwise ProcessBatch returns that encode error and no bytes.
C10_DecodeFailure ==
    Rejected =>
        /\ calls = <<>>
        /\ routed = <<>>
        /\ results = <<>>
        /\ ret.err = "" =>
              /\ Response.ok
              /\ Len(Response.results) = 1
              /\ Response.results[1].MessageType = MsgError
              /\ Response.results[1].Message = Request.err
        /\ ret.err # "" => (ret.err = "encode error" /\ ret.bytes = <<>>)

\* a truncated request was answered with an encoded error response while
\* handlers were registered
C10_Witness ==
    /\ Rejected
    /\ requestBytes # Garbage
    /\ handlers # <<>>
    /\ ret.err = ""
    /\ Response.ok

\* C11: ProcessBatch returns a function-level error exactly when encoding the
\* outgoing BatchResponse envelope fails; every other failure (request
\* decode, argument decode, lookup, validation, unimplemented action,
\* cancellation, result encode) is an Error PacketResult of a response that
\* is returned without a function-level error.
C11_OnlyEnvelopeError ==
    /\ ret.returned => ((ret.err # "") <=> ~ret.encoded)
    /\ (ret.returned /\ ret.err # "") => ret.bytes = <<>>
    /\ (Rejected /\ ret.encoded) =>
          /\ ret.err = ""
          /\ Response.results[1].MessageType = MsgError
    /\ (Finished /\ ret.encoded) =>
          /\ ret.err = ""
          /\ Response.ok
          /\ \A i \in 1 .. Len(errs) :
                errs[i] # "" =>
                    /\ Response.results[i].MessageType = MsgError
                    /\ Response.results[i].Message = errs[i]

\* a response was returned without a function-level error although its three
\* packets failed: one in a result encode, one under a cancelled context and
\* one in validation or lookup
C11_Witness ==
    /\ Finished /\ ret.err = ""
    /\ Len(errs) = 3
    /\ \E i, j, k \in 1 .. 3 :
          /\ errs[i] = "encode error"
          /\ errs[j] = "context canceled"
          /\ errs[k] \in {"no data provided", NoHandlerErr(9)}

\* the packets processed so far whose handlerID is outside the handler table
Unregistered == {i \in 1 .. Len(results) : batchReq[i].HandlerID >= Len(handlers)}

\* C12: a packet whose handlerID is greater than or equal to the number of
\* registered handlers gets an Error result whose message says that no
\* handler was found for that id, with the packet's reqID, and neither a
\* Validate nor a CRUD method is invoked for it.
C12_NoHandler ==
    /\ \A i \in Unregistered :
          /\ results[i].MessageType = MsgError
          /\ results[i].Message = NoHandlerErr(batchReq[i].HandlerID)
          /\ results[i].ReqID = batchReq[i].ReqID
          /\ processSinglePacket(handlers, ctxSeen[i], batchReq[i]).calls = <<>>
    /\ \A n \in 1 .. Len(calls) : calls[n].h < Len(handlers)
    /\ Unregistered = 1 .. Len(results) => calls = <<>> /\ routed = <<>>
    /\ (Finished /\ ret.err = "") =>
          \A i \in Unregistered :
              /\ Response.results[i].MessageType = MsgError
              /\ Response.results[i].Message = NoHandlerErr(Request.packets[i].HandlerID)
              /\ Response.results[i].ReqID = Request.packets[i].ReqID

\* a batch holding a packet for handler 9 between two packets that invoked
\* their handlers was answered while five handlers were registered
C12_Witness ==
    /\ Finished /\ ret.err = ""
    /\ Len(handlers) = 5
    /\ Len(results) = 3
    /\ Unregistered = {2}
    /\ Response.results[2].ReqID = "r3"
    /\ Response.results[2].Message = "no handler found for id: 9"
    /\ Len(calls) = 2

\* packet i passes typed decode, lookup and validation, so that CallHandler
\* reaches its cancellation check for it
ReachesCheck(i) ==
    /\ decodeWithKnownType(handlers, batchReq[i]).err = ""
    /\ ~(handlers[batchReq[i].HandlerID + 1].handler.validator /\ batchReq[i].Data = <<>>)

\* packet i reaches the dispatch of a bound method under a live context
Dispatches(i) ==
    /\ ReachesCheck(i)
    /\ ~ctxSeen[i]
    /\ BoundMethod(handlers[batchReq[i].HandlerID + 1], batchReq[i].Action) # "none"

\* C14: a packet for which CallHandler reaches its cancellation check under
\* a cancelled context fails with the cancellation error and no CRUD method
\* is invoked for it; the loop goes on: every packet of the batch is
\* processed, each result is the one the packet gets on its own under the
\* context state it met, and the response holds a result for each packet.
C14_Cancellation ==
    /\ \A i \in 1 .. Len(results) :
          /\ (ctxSeen[i] /\ ReachesCheck(i)) =>
                /\ results[i].MessageType = MsgError
                /\ results[i].Message = "context canceled"
          /\ results[i] = Alone(i)
    /\ Cardinality({n \in 1 .. Len(calls) : calls[n].op = "Method"})
          = Cardinality({i \in 1 .. Len(results) : Dispatches(i)})
    /\ Finished => Len(results) = Len(Request.packets)
    /\ (Finished /\ ret.err = "") =>
          /\ Len(Response.results) = Len(Request.packets)
          /\ \A i \in 1 .. Len(results) : Response.results[i] = results[i]

\* the context was cancelled after the first of three packets: the first
\* succeeded, the second failed with the cancellation error, the third was
\* still processed and the response holds the three results
C14_Witness ==
    /\ Finished /\ ret.err = ""
    /\ Len(Response.results) = 3
    /\ ctxSeen = <<FALSE, TRUE, TRUE>>
    /\ Response.results[1].MessageType = MsgSuccess
    /\ Response.results[2].Message = "context canceled"
    /\ Len(calls) = 1

\* what the handler call of packet i returned
Returned(i) ==
    CallHandler(handlers, ctxSeen[i], batchReq[i].HandlerID, batchReq[i].Action,
                decodeWithKnownType(handlers, batchReq[i]).data)

\* the handler of packet i was invoked and returned a sequence of Responses
\* that all extract without error
ReturnsResponses(i) ==
    /\ decodeWithKnownType(handlers, batchReq[i]).err = ""
    /\ Returned(i).err = ""
    /\ Returned(i).result.kind = "responses"
    /\ \A j \in 1 .. Len(Returned(i).result.items) : Returned(i).result.items[j].err = ""

\* the first response of a sequence whose payload the codec cannot encode,
\* one past the end if there is none
FirstUnencodable(items) ==
    IF \E j \in 1 .. Len(items) : ~Encode(items[j].data).ok
    THEN CHOOSE j \in 1 .. Len(items) :
            ~Encode(items[j].data).ok /\ \A l \in 1 .. j - 1 : Encode(items[l].data).ok
    ELSE Len(items) + 1

\* one delivery per target of each of the first n responses, in order
RECURSIVE Deliveries(_, _, _)
Deliveries(items, n, handlerID) ==
    IF n = 0 THEN <<>>
    ELSE Deliveries(items, n - 1, handlerID)
            \o [t \in 1 .. Len(items[n].broadcast) |->
                    [channel |-> items[n].broadcast[t], bytes |-> <<"json", items[n].data>>,
                     handlerID |-> handlerID]]

\* the deliveries packets 1..n cause: for a packet that returned Responses,
\* one per target of each response up to the m-th
RECURSIVE RoutedUpTo(_, _)
RoutedUpTo(n, all) ==
    IF n = 0 THEN <<>>
    ELSE RoutedUpTo(n - 1, all)
            \o IF ReturnsResponses(n)
               THEN LET items == Returned(n).result.items
                        m == IF all THEN Len(items) ELSE FirstUnencodable(items) - 1
                    IN  Deliveries(items, m, batchReq[n].HandlerID)
               ELSE processSinglePacket(handlers, ctxSeen[n], batchReq[n]).routed

\* C16 as stated: when the handler returns k Responses that all extract
\* without error, the result's data is the k encoded payloads in order and
\* every response with targets is routed once, each of its channels getting
\* the encoded payload once.
C16_AsStated ==
    /\ \A i \in 1 .. Len(results) :
          ReturnsResponses(i) =>
              LET items == Returned(i).result.items
              IN  /\ Len(results[i].Data) = Len(items)
                  /\ \A j \in 1 .. Len(items) : results[i].Data[j] = <<"json", items[j].data>>
    /\ routed = RoutedUpTo(Len(results), TRUE)

\* C16 (amended): when the handler returns k Responses that all extract
\* without error and whose payloads the codec all encodes, the result's
\* data is the k encoded payloads in order and every response with targets
\* is routed once, each of its channels getting the encoded payload once;
\* when the j-th payload is the first the codec cannot encode, the result
\* is an Error whose data is the j-1 earlier buffers, only the responses
\* before the j-th reach their channels and no later response is routed.
C16_ResponseSequence ==
    /\ \A i \in 1 .. Len(results) :
          ReturnsResponses(i) =>
              LET items == Returned(i).result.items
                  m == FirstUnencodable(items) - 1
              IN  /\ Len(results[i].Data) = m
                  /\ \A j \in 1 .. m : results[i].Data[j] = <<"json", items[j].data>>
                  /\ m = Len(items) => results[i].MessageType = MsgSuccess
                  /\ m < Len(items) => results[i].MessageType = MsgError
    /\ routed = RoutedUpTo(Len(results), FALSE)

\* a packet whose handler returned three encodable Responses, the first for
\* two channels and the third for one, has its three buffers in its result
\* and three deliveries were made
C16_Witness ==
    \E i \in 1 .. Len(results) :
        /\ ReturnsResponses(i)
        /\ FirstUnencodable(Returned(i).result.items) = 4
        /\ Len(results[i].Data) = 3
        /\ results[i].Data[1] # results[i].Data[3]
        /\ Len(routed) = 3
        /\ [n \in 1 .. 3 |-> routed[n].channel] = <<"u1", "u2", "u3">>
        /\ routed[1].bytes = results[i].Data[1]
        /\ routed[3].bytes = results[i].Data[3]

\* the handler of packet i was invoked and returned a Response, or a
\* sequence of Responses, one of which reports an error
ReturnsFailedResponse(i) ==
    /\ decodeWithKnownType(handlers, batchReq[i]).err = ""
    /\ Returned(i).err = ""
    /\ Returned(i).result.kind \in {"response", "responses"}
    /\ \E j \in 1 .. Len(Returned(i).result.items) : Returned(i).result.items[j].err # ""

\* the error of the first Response of the sequence that reports one
FirstResponseErr(items) ==
    items[CHOOSE j \in 1 .. Len(items) :
            items[j].err # "" /\ \A l \in 1 .. j - 1 : items[l].err = ""].err

\* C17: when the Response a handler returned, or an element of the Response
\* sequence it returned, reports an error from Response(), the packet has
\* one outcome: its result is Error and its message is that error's text.
C17_ResponseError ==
    /\ \A i \in 1 .. Len(results) :
          ReturnsFailedResponse(i) =>
              /\ results[i].MessageType = MsgError
              /\ results[i].Message = FirstResponseErr(Returned(i).result.items)
              /\ errs[i] = results[i].Message
    /\ (Finished /\ ret.err = "") =>
          \A i \in 1 .. Len(results) :
              ReturnsFailedResponse(i) =>
                  /\ Response.results[i].MessageType = MsgError
                  /\ Response.results[i].Message = "response failed"

\* a batch was answered in which one handler returned a single failing
\* Response and another a sequence whose second Response fails
C17_Witness ==
    /\ Finished /\ ret.err = ""
    /\ \E i, j \in 1 .. Len(results) :
          /\ ReturnsFailedResponse(i) /\ Returned(i).result.kind = "response"
          /\ ReturnsFailedResponse(j) /\ Returned(j).result.kind = "responses"
          /\ Returned(j).result.items[1].err = ""
          /\ Response.results[i].Message = "response failed"
          /\ Response.results[j].Message = "response failed"

\* the handler of packet i was invoked and returned nil
ReturnsNil(i) ==
    /\ decodeWithKnownType(handlers, batchReq[i]).err = ""
    /\ Returned(i).err = ""
    /\ Returned(i).result.kind = "nil"

\* C18: when the handler returns nil, the packet's result is Success with
\* zero data buffers and nothing is routed for it.
C18_NilResult ==
    /\ \A i \in 1 .. Len(results) :
          ReturnsNil(i) =>
              /\ results[i].MessageType = MsgSuccess
              /\ results[i].Data = <<>>
              /\ processSinglePacket(handlers, ctxSeen[i], batchReq[i]).routed = <<>>
    /\ (\A i \in 1 .. Len(results) : ReturnsNil(i)) => routed = <<>>

(***************************************************************************)
(* Properties of the dispatcher and of registration.                       *)
(***************************************************************************)
\* the last direct CallHandler call addressed a registered slot
Addressed == lastCall.made /\ lastCall.handlerID < Len(lastCall.table)
Slot == lastCall.table[lastCall.handlerID + 1]
ValidateCall == [op |-> "Validate", h |-> lastCall.handlerID, action |-> lastCall.action]
MethodCall == [op |-> "Method", h |-> lastCall.handlerID, action |-> lastCall.action]

\* Validate of the addressed handler rejects the call's (action, arguments)
ValidateRejects == Slot.handler.validator /\ Len(lastCall.data) = 0
ValidateAccepts == Slot.handler.validator /\ Len(lastCall.data) > 0

\* C13 as stated: a rejecting Validate makes CallHandler return that error
\* without invoking a CRUD method, and whenever Validate accepts, the method
\* for the action is invoked.
C13_AsStated ==
    Addressed =>
        /\ ValidateRejects =>
              /\ lastCall.out.err = "no data provided"
              /\ lastCall.out.calls = <<ValidateCall>>
        /\ ValidateAccepts => lastCall.out.calls = <<ValidateCall, MethodCall>>

\* C13 (amended): a rejecting Validate makes CallHandler return that error
\* without invoking a CRUD method; when Validate accepts, the method for the
\* action is invoked after it provided the context is not cancelled and the
\* handler has a method bound for the action, and otherwise no method is
\* invoked.
C13_ValidationShortCircuit ==
    Addressed =>
        /\ ValidateRejects =>
              /\ lastCall.out.err = "no data provided"
              /\ lastCall.out.calls = <<ValidateCall>>
        /\ ValidateAccepts =>
              IF ~lastCall.ctx /\ BoundMethod(Slot, lastCall.action) # "none"
              THEN /\ lastCall.out.err = ""
                   /\ lastCall.out.calls = <<ValidateCall, MethodCall>>
              ELSE /\ lastCall.out.err # ""
                   /\ lastCall.out.calls = <<ValidateCall>>

\* Create of a handler with a Validate method was called without arguments
\* under a live context and failed in validation
C13_Witness ==
    /\ Addressed
    /\ ValidateRejects
    /\ ~lastCall.ctx
    /\ BoundMethod(Slot, lastCall.action) # "none"
    /\ lastCall.out.err = "no data provided"

\* the error of a call whose action has no bound method
NotImplementedErr ==
    "action '" \o lastCall.action \o "' not implemented for handler: " \o Slot.name

\* the action bytes whose interface the registered handler implements
Implemented(h) == {a \in {"c", "r", "u", "d"} : h[a] # "none"}

Unbound == Addressed /\ lastCall.action \notin Implemented(Slot.handler)

\* a RegisterHandler call without nil handlers returns no error, whichever
\* of the four operations its handlers implement
SubsetRegisters == (\A i \in 1 .. Len(regd.input) : ~regd.input[i].isNil) => regd.err = ""

\* C15 as stated: every CallHandler call with a valid handlerID and an action
\* without a bound method (any byte other than c, r, u, d included) invokes
\* no CRUD method and fails with the "not implemented" error naming the
\* handler; registering handlers that implement a subset never fails.
C15_AsStated ==
    /\ Unbound =>
          /\ \A n \in 1 .. Len(lastCall.out.calls) : lastCall.out.calls[n].op # "Method"
          /\ lastCall.out.err = NotImplementedErr
    /\ SubsetRegisters

\* C15 (amended): such a call invokes no CRUD method and fails; its error
\* is the "not implemented" error naming the handler when the handler's
\* Validate (if any) accepts and the context is not cancelled, the
\* validation error when Validate rejects, and the cancellation error when
\* Validate accepts or is absent and the context is cancelled; registering
\* handlers that implement a subset never fails.
C15_NotImplemented ==
    /\ Unbound =>
          /\ \A n \in 1 .. Len(lastCall.out.calls) : lastCall.out.calls[n].op # "Method"
          /\ lastCall.out.err =
                IF ValidateRejects THEN "no data provided"
                ELSE IF lastCall.ctx THEN "context canceled"
                ELSE NotImplementedErr
    /\ SubsetRegisters

\* a call with action byte 'x' to a registered handler that implements
\* Create and Read only failed with the "not implemented" error
C15_Witness ==
    /\ Unbound
    /\ lastCall.action = "x"
    /\ Slot.Create # "none" /\ Slot.Delete = "none"
    /\ regd.err = "" /\ Len(regd.input) = 5
    /\ lastCall.out.err = "action 'x' not implemented for handler: user"

\* C19: after a successful RegisterHandler(h0..hn-1), GetHandlerName(i) is
\* the name resolved for hi (HandlerName() of a NamedHandler, the snake-case
\* type name otherwise) for every i < n and the empty string for every
\* other handler id.
C19_HandlerNames ==
    regd.err = "" =>
        /\ Len(handlers) = Len(regd.input)
        /\ \A i \in 0 .. 255 :
              GetHandlerName(handlers, i) =
                  IF i >= Len(regd.input) THEN ""
                  ELSE IF regd.input[i + 1].named THEN regd.input[i + 1].explicit
                  ELSE SnakeLow(regd.input[i + 1].typeName, FALSE)

\* three handlers were registered, the first with a HandlerName() and the
\* third with a two-word type name
C19_Witness ==
    /\ regd.err = ""
    /\ Len(regd.input) = 3
    /\ GetHandlerName(handlers, 0) = "my_custom_name"
    /\ GetHandlerName(handlers, 1) = "user"
    /\ GetHandlerName(handlers, 2) = "validated_handler"
    /\ GetHandlerName(handlers, 3) = ""

\* C20: RegisterHandler returns an error whenever a handler of its input is
\* nil, and the error is about the first nil handler in input order; no
\* handler at or after it is registered.
C20_NilHandler ==
    /\ (\E i \in 1 .. Len(regd.input) : regd.input[i].isNil) <=> regd.err # ""
    /\ \A i \in 1 .. Len(regd.input) :
          (regd.input[i].isNil /\ \A j \in 1 .. i - 1 : ~regd.input[j].isNil) =>
              /\ regd.err = "handler " \o ToString(i - 1) \o " is nil"
              /\ \A j \in i .. Len(regd.input) : handlers[j].name = ""
              /\ \A j \in 1 .. i - 1 : handlers[j].handler = regd.input[j]

\* RegisterHandler was called with two handlers followed by two nil
\* handlers and reported the third argument
C20_Witness ==
    /\ Len(regd.input) = 4
    /\ regd.input[3].isNil /\ regd.input[4].isNil
    /\ ~regd.input[1].isNil /\ ~regd.input[2].isNil
    /\ regd.err = "handler 2 is nil"

(***************************************************************************)
(* Properties of the typed decode.                                         *)
(***************************************************************************)
\* the values of caller g's own argument buffers
OwnArgs(g) == [j \in 1 .. Len(conc[g].data) |-> Decode(conc[g].data[j]).value]

Dispatched(i) ==
    /\ decodeWithKnownType(handlers, batchReq[i]).err = ""
    /\ Returned(i).err = ""

\* a handler result with the targets of every response removed, so that
\* the router is not called for it
WithoutTargets(result) ==
    [result EXCEPT !.items = [j \in 1 .. Len(result.items) |->
                                [result.items[j] EXCEPT !.broadcast = <<>>]]]

\* the response of a result for which the router fails: it has targets and
\* a payload the codec cannot encode, and every response before it
\* extracted and encoded
RouterFails(result) ==
    /\ result.kind \in {"responses", "response"}
    /\ \E j \in 1 .. Len(result.items) :
          /\ Len(result.items[j].broadcast) > 0
          /\ result.items[j].err = ""
          /\ ~Encode(result.items[j].data).ok
          /\ \A l \in 1 .. j - 1 :
                result.items[l].err = "" /\ Encode(result.items[l].data).ok

\* C22: an encoding failure inside the result router is not propagated:
\* the PacketResult of every dispatched packet is the one the same handler
\* result gives when the router is never called (same messageType, message
\* and data), every delivery made carries a payload the codec encoded, and
\* a finished batch has one result per packet of the request.
C22_RouterFailureContained ==
    /\ \A i \in 1 .. Len(results) :
          Dispatched(i) =>
              LET e == encodeResultToPacket(PacketResult(batchReq[i], 0, ""),
                                            WithoutTargets(Returned(i).result))
              IN  results[i] = IF e.err = ""
                               THEN PacketResult(e.pr, MsgSuccess, "OK")
                               ELSE PacketResult(e.pr, MsgError, e.err)
    /\ \A n \in 1 .. Len(routed) :
          /\ routed[n].bytes[1] = "json"
          /\ Encode(routed[n].bytes[2]).ok
    /\ pc = "done" /\ batchReq # <<>> => Len(results) = Len(batchReq)

\* the router failed for the second response of a packet's result, after
\* delivering the first; the packet's result keeps the first buffer, only
\* channel u1 got a delivery, and the next packet of the batch succeeded
C22_Witness ==
    /\ pc = "done"
    /\ \E i \in 1 .. Len(results) - 1 :
          /\ Dispatched(i)
          /\ RouterFails(Returned(i).result)
          /\ results[i].MessageType = MsgError
          /\ Len(results[i].Data) = 1
          /\ [n \in 1 .. Len(routed) |-> routed[n].channel] = <<"u1">>
          /\ results[i + 1].MessageType = MsgSuccess

(***************************************************************************)
(* Properties of a flush without a callback.                               *)
(***************************************************************************)
\* argument n was enqueued, is no longer queued, was never handed to the
\* callback and was not removed by Clear: a flush dropped it
Dropped(n) ==
    /\ n \in 1 .. Len(enqLog)
    /\ n \notin ArgsOf(queue)
    /\ n \notin DeliveredArgs
    /\ n \notin discarded

\* no step hands the callback an argument that a flush had dropped
DroppedStayDropped ==
    [][\A n \in 1 .. MaxEnq :
          Dropped(n) =>
              \A i \in 1 .. Len(delivered') :
                  n \notin ArgsOf(DecodeBatchRequest(delivered'[i].bytes).packets)]_vars

\* C23 as stated: a flush of a non-empty queue with no callback registered
\* empties the queue and delivers nothing, and the dropped packets are
\* never delivered afterwards.
C23_AsStated ==
    /\ [][(FlushStep /\ queue # <<>> /\ ~onFlush) =>
            (queue' = <<>> /\ delivered' = delivered /\ ~inCallback')]_vars
    /\ DroppedStayDropped

\* C23 (amended): a flush of a non-empty queue with no callback registered
\* delivers nothing; if the codec encodes the batch the queue is emptied
\* and the dropped packets are never delivered afterwards, and if the
\* encode fails the queue is left as it was.
C23_NoCallbackDrops ==
    /\ [][(FlushStep /\ queue # <<>> /\ ~onFlush) =>
            /\ delivered' = delivered
            /\ ~inCallback'
            /\ codecOK => queue' = <<>>
            /\ ~codecOK => queue' = queue]_vars
    /\ DroppedStayDropped

\* an argument was dropped by a flush without callback; a callback was
\* registered afterwards and has received only later arguments
C23_Witness ==
    /\ onFlush
    /\ delivered # <<>>
    /\ \E n \in 1 .. MaxEnq :
          /\ Dropped(n)
          /\ \A a \in DeliveredArgs : a > n

(***************************************************************************)
(* Properties of ProcessPacket.                                            *)
(***************************************************************************)
\* the call ran ProcessBatch on the batch holding just the request's packet,
\* and ProcessBatch returned a response holding that packet's one result
BatchOfOne ==
    /\ packetCall.state = "returned"
    /\ packetCall.batchBytes # <<>>
    /\ requestBytes = EncodeBatchRequest(<<DecodePacket(packetCall.bytes).packet>>)
    /\ batchReq = <<DecodePacket(packetCall.bytes).packet>>
    /\ ret.returned /\ ret.err = ""
    /\ DecodeBatchResponse(ret.bytes).results
          = <<processSinglePacket(handlers, ctxSeen[1], batchReq[1]).pr>>

\* the packet ProcessPacket answers a non-Error result with
ResponsePacket ==
    [Action |-> DecodePacket(packetCall.bytes).packet.Action,
     HandlerID |-> DecodePacket(packetCall.bytes).packet.HandlerID,
     ReqID |-> results[1].ReqID,
     Data |-> results[1].Data]

\* ProcessPacket ran ProcessBatch whenever its packet decoded and the batch
\* of one encoded, and passes on the error of a ProcessBatch that failed
WrapsTheBatch ==
    packetCall.state = "returned" =>
        /\ (DecodePacket(packetCall.bytes).err = "" /\ packetCall.out.err # "encode error")
              => (BatchOfOne \/ (ret.returned /\ ret.err # ""))
        /\ (packetCall.batchBytes # <<>> /\ ret.err # "")
              => (packetCall.out.failed /\ packetCall.out.err = ret.err
                    /\ packetCall.out.bytes = <<>>)

\* C24 as stated: ProcessPacket behaves as ProcessBatch on the batch of one:
\* an Error-typed result gives an error with the result's message and no
\* bytes, any other result gives a packet with the request's action and
\* handlerID and the result's reqID and data.
C24_AsStated ==
    /\ WrapsTheBatch
    /\ BatchOfOne =>
          IF results[1].MessageType = MsgError
          THEN /\ packetCall.out.failed
               /\ packetCall.out.err = results[1].Message
               /\ packetCall.out.bytes = <<>>
          ELSE /\ ~packetCall.out.failed
               /\ DecodePacket(packetCall.out.bytes) = [err |-> "", packet |-> ResponsePacket]

\* C24 (amended): as stated when the codec encodes the response packet;
\* when that encode fails, a non-Error result gives the encode error and no
\* bytes.
C24_ProcessPacket ==
    /\ WrapsTheBatch
    /\ BatchOfOne =>
          IF results[1].MessageType = MsgError
          THEN /\ packetCall.out.failed
               /\ packetCall.out.err = results[1].Message
               /\ packetCall.out.bytes = <<>>
          ELSE IF packetCall.out.encoded
          THEN /\ ~packetCall.out.failed
               /\ DecodePacket(packetCall.out.bytes) = [err |-> "", packet |-> ResponsePacket]
          ELSE /\ packetCall.out.failed
               /\ packetCall.out.bytes = <<>>

\* a read packet with two arguments and request id r2 was answered with a
\* packet of the same action, handlerID and request id whose data are the
\* two buffers of the result, not those of the request
C24_Witness ==
    /\ BatchOfOne
    /\ ~packetCall.out.failed
    /\ DecodePacket(packetCall.bytes).packet.ReqID = "r2"
    /\ DecodePacket(packetCall.out.bytes).packet.Action = "r"
    /\ DecodePacket(packetCall.out.bytes).packet.ReqID = "r2"
    /\ Len(DecodePacket(packetCall.out.bytes).packet.Data) = 2
    /\ DecodePacket(packetCall.out.bytes).packet.Data
          # DecodePacket(packetCall.bytes).packet.Data

\* C25: a Response whose target list is empty is broadcast to everyone: when
\* a dispatched packet succeeds, every response of its result that has no
\* targets had its encoded payload handed to the router and delivered.
C25_EmptyMeansEveryone ==
    \A i \in 1 .. Len(results) :
        (/\ Dispatched(i)
         /\ results[i].MessageType = MsgSuccess
         /\ Returned(i).result.kind \in {"responses", "response"}) =>
            \A j \in 1 .. Len(Returned(i).result.items) :
                Returned(i).result.items[j].broadcast = <<>> =>
                    \E n \in 1 .. Len(routed) :
                        /\ routed[n].handlerID = batchReq[i].HandlerID
                        /\ routed[n].bytes = Encode(Returned(i).result.items[j].data).bytes

(***************************************************************************)
(* Properties of the method/action conversions.                            *)
(***************************************************************************)
\* the four pairs of method and action byte
Pairs == {<<"POST", 99>>, <<"GET", 114>>, <<"PUT", 117>>, <<"DELETE", 100>>}

\* C26: MethodToAction maps POST, GET, PUT, DELETE to the bytes of c, r, u,
\* d and every other verb to 0; ActionToMethod maps each of the four bytes
\* back to its method, so that MethodToAction of its result is the byte
\* again, and maps every other byte to the empty string.
C26_Conversions ==
    /\ conv.toAction =>
          IF \E pr \in Pairs : pr[1] = conv.method
          THEN <<conv.method, conv.action>> \in Pairs
          ELSE conv.action = 0
    /\ conv.toMethod =>
          IF \E pr \in Pairs : pr[2] = conv.byte
          THEN /\ <<conv.verb, conv.byte>> \in Pairs
               /\ conv.back => conv.again = conv.byte
          ELSE conv.verb = ""

\* an unknown method was converted to 0, and the byte of u was converted
\* to PUT and back to the byte of u
C26_Witness ==
    /\ conv.toAction /\ conv.method = "INVALID" /\ conv.action = 0
    /\ conv.toMethod /\ conv.byte = 117 /\ conv.verb = "PUT"
    /\ conv.back /\ conv.again = 117

(***************************************************************************)
(* Properties of the broker's locking and of its states.                   *)
(***************************************************************************)
\* b.mu is held across steps only by a flush that is inside the callback
MutexHeld == inCallback

\* a step of Enqueue, flush, FlushNow or Clear that changes the queue or
\* arms, reads or cancels b.timer
TouchesQueueOrTimer ==
    \/ queue' # queue
    \/ timer' # timer
    \/ Len(enqLog') # Len(enqLog)
    \/ nClear' # nClear
    \/ nFlushNow' # nFlushNow

\* C27: every broker operation that changes the queue or arms, reads or
\* cancels the flush timer does so holding b.mu: no such step is taken
\* while another operation holds the mutex.
C27_UnderMutex == [][TouchesQueueOrTimer => ~MutexHeld]_vars

\* no broker operation is in progress: no flush is inside the callback, no
\* FlushNow is between its Stop and its flush, and no expired timer's flush
\* is still to run
BetweenOperations ==
    /\ ~inCallback
    /\ ~flushNowPending
    /\ \A i \in 1 .. Len(timers) : timers[i].state # "fired"

\* a flush timer is pending
TimerPending == \E i \in 1 .. Len(timers) : timers[i].state = "armed"

\* C28: between broker operations the broker is Idle (empty queue, no
\* pending timer) or Accumulating (non-empty queue, timer armed): the queue
\* is non-empty exactly when a flush timer is pending, and every flush,
\* timer-fired or forced, leaves the broker Idle.
C28_IdleOrAccumulating ==
    /\ [](BetweenOperations => (queue # <<>> <=> TimerPending))
    /\ [][FlushStep => (queue' = <<>> /\ ~TimerPending')]_vars

(***************************************************************************)
(* Properties of the order of CallHandler's steps.                         *)
(***************************************************************************)
\* the Validate call a direct CallHandler call makes first, if the
\* addressed handler has one
Validated == IF Slot.handler.validator THEN <<ValidateCall>> ELSE <<>>

\* the outcome of the lookup, Validate and cancellation steps of the last
\* direct call, which are those the claim states
ChecksInOrder ==
    IF ~Addressed
    THEN /\ lastCall.out.err = NoHandlerErr(lastCall.handlerID)
         /\ lastCall.out.calls = <<>>
    ELSE IF ValidateRejects
    THEN /\ lastCall.out.err = "no data provided"
         /\ lastCall.out.calls = <<ValidateCall>>
    ELSE lastCall.ctx =>
            /\ lastCall.out.err = "context canceled"
            /\ lastCall.out.calls = Validated

\* the last direct call passed the lookup, Validate and the cancellation check
ChecksPass == Addressed /\ ~ValidateRejects /\ ~lastCall.ctx

\* the method of the addressed handler for the call's action was invoked
\* once, after Validate, and its return value is the call's result
InvokedOnce ==
    /\ lastCall.out.err = ""
    /\ lastCall.out.calls = Validated \o <<MethodCall>>
    /\ lastCall.out.result = Invoke(Slot.handler[lastCall.action], lastCall.data)

\* C29 as stated: CallHandler runs lookup, Validate, cancellation check and
\* dispatch in that order: an out-of-range handlerID gives the lookup error
\* whatever the payload and context, a rejected payload gives the
\* validation error even under a cancelled context, and when all three
\* checks pass the method bound for the action is invoked exactly once.
C29_AsStated ==
    lastCall.made =>
        /\ ChecksInOrder
        /\ ChecksPass => InvokedOnce

\* C29 (amended): as stated, with the dispatch step invoking the method
\* exactly once when the handler has a method bound for the action, and
\* invoking no method and returning the "not implemented" error when it
\* has none.
C29_StepOrder ==
    lastCall.made =>
        /\ ChecksInOrder
        /\ ChecksPass =>
              IF lastCall.action \in Implemented(Slot.handler)
              THEN InvokedOnce
              ELSE /\ lastCall.out.err = NotImplementedErr
                   /\ lastCall.out.calls = Validated

\* a call without arguments to a handler with a Validate method, made
\* under a cancelled context for an action the handler implements, failed
\* with the validation error after the one Validate call
C29_Witness ==
    /\ Addressed
    /\ ValidateRejects
    /\ lastCall.ctx
    /\ lastCall.action \in Implemented(Slot.handler)
    /\ lastCall.out.err = "no data provided"
    /\ lastCall.out.calls = <<ValidateCall>>

(***************************************************************************)
(* Properties of the order of validation and decoding.                     *)
(***************************************************************************)
\* the processed packets addressed to a registered handler that has a
\* Validate method
ToValidator ==
    {i \in 1 .. Len(results) :
        /\ batchReq[i].HandlerID < Len(handlers)
        /\ handlers[batchReq[i].HandlerID + 1].handler.validator}

\* the Validate calls made so far
ValidateCalls == SelectSeq(calls, LAMBDA c : c.op = "Validate")

\* C30: Validate is invoked on a packet's raw arguments before they are
\* decoded, so a decode failure cannot prevent validation: every processed
\* packet addressed to a handler with a Validate method has caused one
\* Validate call, whether or not its arguments decode.
C30_ValidateBeforeDecode ==
    /\ Len(ValidateCalls) = Cardinality(ToValidator)
    /\ \A i \in ToValidator :
          \E n \in 1 .. Len(ValidateCalls) :
              /\ ValidateCalls[n].h = batchReq[i].HandlerID
              /\ ValidateCalls[n].action = batchReq[i].Action

(***************************************************************************)
(* Properties of slot binding.                                             *)
(***************************************************************************)
\* C31: for every list of handlers RegisterHandler accepts, the handler at
\* input position i is recorded with index i and slot i holds its CRUD
\* methods and no other handler's, also when the list is longer than a
\* uint8 handlerID can address.
C31_SlotBinding ==
    regd.err = "" =>
        \A i \in 1 .. Len(regd.input) :
            /\ handlers[i].index = i - 1
            /\ handlers[i].handler = regd.input[i]
            /\ handlers[i].Create = regd.input[i].c
            /\ handlers[i].Read = regd.input[i].r
            /\ handlers[i].Update = regd.input[i].u
            /\ handlers[i].Delete = regd.input[i].d

(***************************************************************************)
(* Properties of the accounting of enqueued arguments.                     *)
(***************************************************************************)
\* how often argument n occurs in the data of a sequence of packets
RECURSIVE Occurrences(_, _)
Occurrences(n, ps) ==
    IF ps = <<>> THEN 0
    ELSE Cardinality({j \in 1 .. Len(Head(ps).Data) : Head(ps).Data[j] = n})
            + Occurrences(n, Tail(ps))

\* how often argument n occurs in the first k batches handed to the callback
RECURSIVE DeliveredOccurrences(_, _)
DeliveredOccurrences(n, k) ==
    IF k = 0 THEN 0
    ELSE Occurrences(n, DeliveredPackets(k)) + DeliveredOccurrences(n, k - 1)

\* argument n is in exactly one place
OnePlace(n) ==
    LET q == Occurrences(n, queue)
        d == DeliveredOccurrences(n, Len(delivered))
        c == IF n \in discarded THEN 1 ELSE 0
    IN  /\ q + d + c <= 1
        /\ q + d + c = 0 => n <= mark

\* C32: in every interleaving of Enqueue, flush, FlushNow and Clear every
\* enqueued argument is in exactly one place: once in the queue, or once in
\* one delivered batch, or discarded by Clear, or dropped by a flush without
\* callback; an argument leaves the queue only in a step that delivers it,
\* a Clear, or a flush without callback.
C32_ExactlyOnce ==
    /\ [](\A n \in 1 .. Len(enqLog) : OnePlace(n))
    /\ [][\A n \in ArgsOf(queue) \ ArgsOf(queue') :
            \/ /\ onFlush
               /\ Len(delivered') = Len(delivered) + 1
               /\ n \in ArgsOf(DecodeBatchRequest(delivered'[Len(delivered')].bytes).packets)
            \/ n \in discarded' /\ nClear' # nClear
            \/ FlushStep /\ ~onFlush /\ delivered' = delivered]_vars

\* of three enqueued arguments the first was delivered, the second was
\* discarded by Clear and the third is queued
C32_Witness ==
    /\ DeliveredArgs = {1}
    /\ discarded = {2}
    /\ ArgsOf(queue) = {3}

(***************************************************************************)
(* Properties of the shape of the queue.                                   *)
(***************************************************************************)
\* the Enqueue calls made since the queue was last emptied
Recent == (mark + 1) .. Len(enqLog)

\* the Enqueue calls since then for the key of queue entry i, in call order
RecentFor(i) ==
    SelectSeq([n \in 1 .. Len(enqLog) |-> n],
              LAMBDA n : n \in Recent /\ KeyOf(enqLog[n]) = KeyOf(queue[i]))

\* C33: the queue holds at most one entry per (handlerID, action), one for
\* every key enqueued since the last flush or Clear, in the order in which
\* those keys were first enqueued since then, and each entry holds exactly
\* the arguments enqueued for its key since then: an Enqueue for a key used
\* before the flush or Clear starts a new entry with only the new argument.
C33_QueueShape ==
    /\ \A i, j \in 1 .. Len(queue) : i # j => KeyOf(queue[i]) # KeyOf(queue[j])
    /\ \A n \in Recent : \E i \in 1 .. Len(queue) : KeyOf(queue[i]) = KeyOf(enqLog[n])
    /\ \A i \in 1 .. Len(queue) : queue[i].Data = RecentFor(i)
    /\ \A i, j \in 1 .. Len(queue) : i < j => queue[i].Data[1] < queue[j].Data[1]

\* after a flush or Clear of a queue holding the first argument, two keys
\* were enqueued, the second of them the key of the first argument; its new
\* entry is behind the other key's and holds only the third argument
C33_Witness ==
    /\ mark = 1
    /\ Len(enqLog) = 3
    /\ KeyOf(enqLog[3]) = KeyOf(enqLog[1])
    /\ KeyOf(enqLog[2]) # KeyOf(enqLog[1])
    /\ Len(queue) = 2
    /\ queue[1].Data = <<2>>
    /\ queue[2].Data = <<3>>

(***************************************************************************)
(* Properties of a flush whose encode fails.                               *)
(***************************************************************************)
\* no timer is armed and no expired timer's flush is still to run
NoTimerLive == \A i \in 1 .. Len(timers) : timers[i].state = "dead"

\* a flush of a non-empty queue whose encode fails calls no callback,
\* leaves the queue as it was and arms no timer
FailedFlushKeepsQueue ==
    [][(FlushStep /\ queue # <<>> /\ ~codecOK) =>
          /\ delivered' = delivered
          /\ ~inCallback'
          /\ queue' = queue
          /\ timer' = timer
          /\ Len(timers') = Len(timers)
          /\ \A i \in 1 .. Len(timers) :
                timers'[i].state = "armed" => timers[i].state = "armed"]_vars

Completes ==
    \/ Len(enqLog') # Len(enqLog)
    \/ nClear' # nClear
    \/ Len(qlen') # Len(qlen)
    \/ onFlush' # onFlush
    \/ FlushStep

\* C35: the callback runs with b.mu held: while it runs no Enqueue, Clear,
\* QueueLength, SetOnFlush or flush on the broker completes, and once the
\* callback has called one of them on the same broker it never returns.
C35_CallbackHoldsMutex ==
    [][/\ inCallback => ~Completes
       /\ waiting # "none" => inCallback' /\ waiting' = waiting]_vars

\* a callback that called Enqueue is stuck inside the second flush, with
\* time having passed and a QueueLength answered before it started
C35_Witness ==
    /\ inCallback
    /\ waiting = "Enqueue"
    /\ Len(delivered) = 2
    /\ Len(qlen) = 1
    /\ now = MaxTime
\* the packets of every batch handed to the callback so far
RECURSIVE FlushedPackets(_)
FlushedPackets(k) ==
    IF k = 0 THEN {}
    ELSE {DeliveredPackets(k)[j] : j \in 1 .. Len(DeliveredPackets(k))}
            \cup FlushedPackets(k - 1)

\* the entries that are queued or were flushed
Entries == {queue[j] : j \in 1 .. Len(queue)} \cup FlushedPackets(Len(delivered))

\* the Enqueue calls merged into an entry another call created
MergedCalls == UNION {{e.Data[j] : j \in 2 .. Len(e.Data)} : e \in Entries}

\* C36: an entry carries the reqID of the Enqueue call that created it, the
\* first for its key, whatever was merged into it later, and the reqID of a
\* merged call is the reqID of no packet of any flushed batch.
C36_FirstReqID ==
    /\ \A e \in Entries :
          /\ e.ReqID = enqLog[e.Data[1]].ReqID
          /\ \A j \in 1 .. Len(e.Data) : KeyOf(enqLog[e.Data[j]]) = KeyOf(e)
    /\ \A n \in MergedCalls :
          \A f \in FlushedPackets(Len(delivered)) : f.ReqID # enqLog[n].ReqID

\* a flushed batch holds an entry merged from the first and the third call
\* next to the entry of the second: reqID 3 went nowhere
C36_Witness ==
    /\ Len(delivered) = 1
    /\ Len(DeliveredPackets(1)) = 2
    /\ DeliveredPackets(1)[1].Data = <<1, 3>>
    /\ DeliveredPackets(1)[1].ReqID = 1
    /\ DeliveredPackets(1)[2].ReqID = 2
\* an earlier packet of the batch being processed failed with the
\* cancellation error of the context
CancelledBefore == \E i \in 1 .. Len(errs) : errs[i] = "context canceled"

\* packet p gets past the lookup and past Validate: its arguments decoded,
\* its handlerID is in the table and the handler's Validate, if it has one,
\* accepts the arguments
PassesLookupAndValidate(p) ==
    /\ decodeWithKnownType(handlers, p).err = ""
    /\ p.HandlerID < Len(handlers)
    /\ ~(handlers[p.HandlerID + 1].handler.validator /\ Len(p.Data) = 0)

\* C37: every packet of a batch is processed with the one context of the
\* ProcessBatch call: after a packet has failed with the cancellation error
\* no later packet invokes a CRUD method, and every later packet that gets
\* past lookup and Validate fails with the cancellation error too.
C37_CancelledStaysCancelled ==
    [][(pc = "loop" /\ Len(results') = Len(results) + 1 /\ CancelledBefore) =>
          /\ \A k \in Len(calls) + 1 .. Len(calls') : calls'[k].op # "Method"
          /\ PassesLookupAndValidate(batchReq[Len(results')]) =>
                /\ errs'[Len(results')] = "context canceled"
                /\ results'[Len(results')].MessageType = MsgError
                /\ results'[Len(results')].Message = "context canceled"]_vars

\* the first packet invoked its method, the context was cancelled, and the
\* second and the third packet both failed with the cancellation error
C37_Witness ==
    /\ Len(results) = 3
    /\ ctxSeen = <<FALSE, TRUE, TRUE>>
    /\ errs = <<"", "context canceled", "context canceled">>
    /\ \E k \in 1 .. Len(calls) : calls[k].op = "Method"
    /\ batchReq[2] # batchReq[3]
\* the slot RegisterHandler fills for handler h at position i of its input
BoundSlot(h, i) ==
    [name |-> IF h.named THEN h.explicit ELSE SnakeLow(h.typeName, FALSE),
     index |-> i, handler |-> h,
     Create |-> h.c, Read |-> h.r, Update |-> h.u, Delete |-> h.d]

\* the table is the one the last RegisterHandler call built, with nothing of
\* an earlier table: it has the length of that call's input, the slots
\* before the first nil handler named and bound, the others zero
TableOfLastCall ==
    /\ Len(handlers) = Len(regd.input)
    /\ \A i \in 1 .. Len(regd.input) :
          handlers[i] = IF FirstNil(regd.input) = 0 \/ i < FirstNil(regd.input)
                        THEN BoundSlot(regd.input[i], i - 1)
                        ELSE ZeroSlot
    /\ regd.err # "" <=> FirstNil(regd.input) # 0

\* the last direct call addressed a slot that a failed registration left zero
ToZeroSlot == Addressed /\ Slot = ZeroSlot

FailsAt(items, j) ==
    /\ j \in 1 .. Len(items)
    /\ items[j].err # "" \/ ~Encode(items[j].data).ok
    /\ \A k \in 1 .. j - 1 : items[k].err = "" /\ Encode(items[k].data).ok

\* the deliveries of the router for the first n elements of items
RECURSIVE DeliveriesOf(_, _, _)
DeliveriesOf(items, n, h) ==
    IF n = 0 THEN <<>>
    ELSE DeliveriesOf(items, n - 1, h) \o
            [c \in 1 .. Len(items[n].broadcast) |->
                [channel |-> items[n].broadcast[c],
                 bytes |-> Encode(items[n].data).bytes, handlerID |-> h]]

\* what the handler of the packet processed next returns, when it is called
NextReturn ==
    LET p == batchReq[Len(results) + 1]
        d == decodeWithKnownType(handlers, p)
    IN  IF d.err # "" THEN [err |-> d.err, result |-> Invoke("nil", <<>>)]
        ELSE CallHandler(handlers, ctxDone, p.HandlerID, p.Action, d.data)

\* C39: when element j of a returned []Response is the first that fails,
\* the packet's result is an Error whose data holds the encoded payloads of
\* the j-1 elements before it, in their order, and the router has made the
\* deliveries of those j-1 elements, all kept, and none for a later element.
C39_PartialResponses ==
    [][(pc = "loop" /\ Len(results') = Len(results) + 1 /\ NextReturn.err = ""
            /\ NextReturn.result.kind = "responses") =>
          \A j \in 1 .. Len(NextReturn.result.items) :
              FailsAt(NextReturn.result.items, j) =>
                  /\ results'[Len(results')].MessageType = MsgError
                  /\ results'[Len(results')].Data =
                        [k \in 1 .. j - 1 |-> Encode(NextReturn.result.items[k].data).bytes]
                  /\ routed' = routed \o
                        DeliveriesOf(NextReturn.result.items, j - 1,
                                     batchReq[Len(results')].HandlerID)
                  /\ errs'[Len(results')] # ""]_vars

\* a packet whose handler returned three Responses, the second failing to
\* extract, has an Error result with one buffer, and the first delivery was
\* made while the channels of the second and the third got nothing
C39_Witness ==
    /\ \E i \in 1 .. Len(results) :
          /\ results[i].MessageType = MsgError
          /\ results[i].Message = "response failed"
          /\ results[i].Data = <<Encode(User("first", 1)).bytes>>
    /\ \E k \in 1 .. Len(routed) : routed[k].channel = "u1"
    /\ \A k \in 1 .. Len(routed) : routed[k].channel \notin {"u2", "u3"}
\* the codec CrudP uses after the SetCodec calls made so far
RECURSIVE ActiveCodec(_, _)
ActiveCodec(first, log) ==
    IF log = <<>> THEN first
    ELSE IF log[Len(log)] # "nil" THEN log[Len(log)]
    ELSE ActiveCodec(first, SubSeq(log, 1, Len(log) - 1))

\* C40: SetCodec(c) with a non-nil c changes cp.codec and nothing else,
\* SetCodec(nil) changes nothing; EncodePacket, ProcessBatch and the
\* argument encoding of EnqueuePacket use the codec of the last non-nil
\* SetCodec, while the broker keeps the codec of New, with which every
\* flushed envelope is encoded.
C40_SetCodec ==
    /\ [][Len(codecLog') # Len(codecLog) =>
             /\ cp' = IF codecLog'[Len(codecLog')] # "nil"
                      THEN [cp EXCEPT !.codec = codecLog'[Len(codecLog')]]
                      ELSE cp
             /\ envelopes' = envelopes]_vars
    /\ [](cp.built =>
             /\ cp.codec = ActiveCodec(cp.original, codecLog)
             /\ cp.broker.codec = cp.original
             /\ \A i \in 1 .. Len(envelopes) : envelopes[i][1] = cp.original)
    /\ [][probe' # probe =>
             /\ probe'.codec = ActiveCodec(cp.original, codecLog)
             /\ probe'.op \in {"EnqueuePacket", "EncodePacket"} /\ probe'.ok =>
                    probe'.bytes[1] = ActiveCodec(cp.original, codecLog)
             /\ probe'.op = "ProcessBatch" =>
                    (probe'.ok <=> probe'.bytes[1] = ActiveCodec(cp.original, codecLog))]_vars

\* after SetCodec(nil) and SetCodec(mock) on an instance built with the
\* default codec, an envelope flushed by the broker is in the default
\* codec's format, the argument inside it is in the mock codec's, and
\* ProcessBatch of the same instance cannot decode the envelope
C40_Witness ==
    /\ cp.built /\ cp.original = "json"
    /\ codecLog = <<"nil", "mock">>
    /\ cp.codec = "mock"
    /\ Len(envelopes) = 1
    /\ envelopes[1][1] = "json"
    /\ envelopes[1][2].Packets[1].Data[1][1] = "mock"
    /\ probe.op = "ProcessBatch" /\ ~probe.ok
====
